---- MODULE Spec2Model ----
(***************************************************************************)
(* Model of TrendAnalysisService (src/src/trend-analysis/                  *)
(* trend-analysis.service.ts): the circuit breaker, the retry loops of     *)
(* analyzeWithGemini / analyzeProblemsWithGemini, the response parsing,    *)
(* the two fallback analyzers and generateReport, run on a single-threaded *)
(* event loop: one action is one run-to-next-await of one async function.  *)
(*                                                                         *)
(* Strings that the code inspects (titles, bodies, keywords) are sequences *)
(* of one-character strings; texts that the code only concatenates are     *)
(* tuples of fragments.  Time is in milliseconds, as Date.now().           *)
(***************************************************************************)
EXTENDS Integers, Sequences, FiniteSets, TLC

\* -------------------------------------------------------------------------
\* Program constants
\* -------------------------------------------------------------------------
circuitBreakerTimeout == 5 * 60 * 1000

maxRetries == 3

retryDelay == 2000

findAllLimit == 1000

\* RedditService.requestDelay, ms
requestDelay == 1000

\* limit: '100', the posts asked for in one request of searchAllPosts /
\* getAllSubredditPosts
batchLimit == 100

\* -------------------------------------------------------------------------
\* Bounds of the model
\* -------------------------------------------------------------------------
\* total number of generateReport invocations started by the cron handlers
MaxRuns == 2

\* longest record sequence of which every arrangement is tried on the
\* fallback analyzers
MaxShort == 3

\* longest run of white space at one place of a response text
MaxSpace == 1

\* number of RedditService calls that run at the same time
MaxCallers == 3

\* -------------------------------------------------------------------------
\* Small helpers
\* -------------------------------------------------------------------------
Undefined == <<"\\undefined">>

Range(s) == {s[i] : i \in DOMAIN s}

Last(s) == s[Len(s)]

RECURSIVE SumBy(_, _)
SumBy(s, field) == IF s = <<>> THEN 0 ELSE Head(s)[field] + SumBy(Tail(s), field)

\* Math.round(num / den) for integers num >= 0 and den > 0.  The division is
\* correctly rounded, so the quotient is on the side of a tie on which the
\* exact value is, and a tie itself is a double: floor(num / den + 0.5)
MathRound(num, den) == (2 * num + den) \div (2 * den)

\* -------------------------------------------------------------------------
\* Numbers: IEEE 754 binary64, the Number type of the runtime
\* -------------------------------------------------------------------------
\* A positive double is [bits, exp]: bits is its 53-bit significand, most
\* significant bit (always 1) first, and its value is bits * 2^exp.  The
\* significand is worked on in chunks of 18 bits, so that no intermediate
\* integer reaches 2^31.
SignificandBits == 53

ChunkBits == 18

ChunkBase == 2 ^ ChunkBits

\* the w low binary digits of k
FixedBits(k, w) == [i \in 1..w |-> (k \div (2 ^ (w - i))) % 2]

RECURSIVE IntOf(_)
IntOf(bits) ==
    IF bits = <<>> THEN 0 ELSE 2 * IntOf(SubSeq(bits, 1, Len(bits) - 1)) + Last(bits)

Zeros(n) == [i \in 1..n |-> 0]

RECURSIVE StripZeros(_)
StripZeros(bits) ==
    IF bits # <<>> /\ Head(bits) = 0 THEN StripZeros(Tail(bits)) ELSE bits

\* the binary digits of a positive integer below 2^30
BitsOf(k) == StripZeros(FixedBits(k, 30))

\* chunk i (1 is the most significant) of a bit sequence of n * 18 bits
ChunkOf(bits, i) == IntOf(SubSeq(bits, (i - 1) * ChunkBits + 1, i * ChunkBits))

\* bits + 1, on a sequence that is not all ones: the last zero becomes one
\* and the ones after it become zero
Increment(bits) ==
    LET j == CHOOSE i \in DOMAIN bits :
                 bits[i] = 0 /\ \A k \in (i + 1)..Len(bits) : bits[k] = 1
    IN  [i \in DOMAIN bits |-> IF i < j THEN bits[i] ELSE IF i = j THEN 1 ELSE 0]

\* round to nearest, ties to even: the exact value is bits * 2^exp, plus a
\* positive amount below 2^exp when sticky; bits starts with 1
RoundToDouble(bits, exp, sticky) ==
    IF Len(bits) <= SignificandBits
    THEN [bits |-> bits \o Zeros(SignificandBits - Len(bits)),
          exp |-> exp - (SignificandBits - Len(bits))]
    ELSE LET kept == SubSeq(bits, 1, SignificandBits)
             guard == bits[SignificandBits + 1]
             rest == sticky \/ \E i \in (SignificandBits + 2)..Len(bits) : bits[i] = 1
             e == exp + (Len(bits) - SignificandBits)
             up == guard = 1 /\ (rest \/ Last(kept) = 1)
         IN  IF ~up THEN [bits |-> kept, exp |-> e]
             ELSE IF \A i \in DOMAIN kept : kept[i] = 1
                  THEN [bits |-> <<1>> \o Zeros(SignificandBits - 1), exp |-> e + 1]
                  ELSE [bits |-> Increment(kept), exp |-> e]

\* the double of a positive integer below 2^30
ToDouble(k) == RoundToDouble(BitsOf(k), 0, FALSE)

\* x / d for a double x and an integer d in 1..4095: schoolbook division of
\* the significand, extended by 19 zero bits to four chunks, which leaves at
\* least 53 quotient bits and a guard bit; the remainder is the sticky bit
DoubleDiv(x, d) ==
    LET dividend == x.bits \o Zeros(4 * ChunkBits - SignificandBits)
        v1 == ChunkOf(dividend, 1)
        v2 == (v1 % d) * ChunkBase + ChunkOf(dividend, 2)
        v3 == (v2 % d) * ChunkBase + ChunkOf(dividend, 3)
        v4 == (v3 % d) * ChunkBase + ChunkOf(dividend, 4)
        quotient == FixedBits(v1 \div d, ChunkBits) \o FixedBits(v2 \div d, ChunkBits)
                    \o FixedBits(v3 \div d, ChunkBits) \o FixedBits(v4 \div d, ChunkBits)
    IN  RoundToDouble(StripZeros(quotient),
                      x.exp - (4 * ChunkBits - SignificandBits), v4 % d # 0)

\* x * k for a double x and an integer k in 1..4095: schoolbook
\* multiplication of the significand, extended by a leading zero to three
\* chunks
DoubleTimes(x, k) ==
    LET factor == Zeros(3 * ChunkBits - SignificandBits) \o x.bits
        p3 == ChunkOf(factor, 3) * k
        p2 == ChunkOf(factor, 2) * k + p3 \div ChunkBase
        p1 == ChunkOf(factor, 1) * k + p2 \div ChunkBase
        product == FixedBits(p1, 30) \o FixedBits(p2 % ChunkBase, ChunkBits)
                   \o FixedBits(p3 % ChunkBase, ChunkBits)
    IN  RoundToDouble(StripZeros(product), x.exp, FALSE)

\* the integer part of a double below 2^31
DoubleFloor(x) ==
    IF x.exp >= 0 THEN IntOf(x.bits \o Zeros(x.exp))
    ELSE IF SignificandBits + x.exp <= 0 THEN 0
    ELSE IntOf(SubSeq(x.bits, 1, SignificandBits + x.exp))

\* Math.round(x) for a positive double below 2^31: the nearest integer, a
\* tie going up; the fraction is at least one half iff its first bit is set
DoubleRound(x) ==
    IF x.exp >= 0 THEN DoubleFloor(x)
    ELSE IF SignificandBits + x.exp < 0 THEN 0
    ELSE DoubleFloor(x) + x.bits[SignificandBits + x.exp + 1]

\* Math.ceil(x) for a positive double below 2^31: the integer part, and one
\* more if any bit of the fraction is set
DoubleCeil(x) ==
    IF x.exp >= 0 THEN DoubleFloor(x)
    ELSE IF \E i \in 1..SignificandBits : i > SignificandBits + x.exp /\ x.bits[i] = 1
         THEN DoubleFloor(x) + 1
         ELSE DoubleFloor(x)

\* -------------------------------------------------------------------------
\* Strings the code looks into: String.prototype.toLowerCase / includes
\* -------------------------------------------------------------------------
LowerOf(c) ==
    CASE c = "H" -> "h"
      [] c = "F" -> "f"
      [] c = "P" -> "p"
      [] c = "B" -> "b"
      [] c = "I" -> "i"
      [] c = "X" -> "x"
      [] OTHER -> c

toLowerCase(s) == [i \in DOMAIN s |-> LowerOf(s[i])]

includes(s, k) ==
    \E i \in 0..(Len(s) - Len(k)) : SubSeq(s, i + 1, i + Len(k)) = k

problemKeywords ==
    << <<"p","r","o","b","l","e","m">>,
       <<"i","s","s","u","e">>,
       <<"d","i","f","f","i","c","u","l","t">>,
       <<"h","a","r","d">>,
       <<"s","t","r","u","g","g","l","e">>,
       <<"f","r","u","s","t","r","a","t","e","d">>,
       <<"a","n","n","o","y","i","n","g">>,
       <<"b","r","o","k","e","n">>,
       <<"f","i","x">>,
       <<"h","e","l","p">> >>

\* -------------------------------------------------------------------------
\* Records (RedditPost) and the record store
\* -------------------------------------------------------------------------
DaySeconds == 24 * 60 * 60

\* the documents that may be in the collection; created_utc is in seconds
PostA ==
    [id |-> "a", title |-> <<"H","e","l","p"," ","m","e">>, subreddit |-> "saas",
     score |-> 300, num_comments |-> 12, created_utc |-> 100,
     selftext |-> <<"a","p","i">>]

PostB ==
    [id |-> "b", title |-> <<"n","e","w"," ","a","p","p">>, subreddit |-> "startups",
     score |-> 2, num_comments |-> 0, created_utc |-> 4 - 30 * 24 * 60 * 60,
     selftext |-> Undefined]

PostPool == {PostA, PostB}

\* further documents, for the analyzers called on their own: a keyword in
\* the body only and a label that is a canonical array index; a score of
\* exactly 5; a comment count of exactly 3
PostC ==
    [id |-> "c", title |-> <<"B","i","g"," ","n","e","w","s">>, subreddit |-> "42",
     score |-> 100, num_comments |-> 3, created_utc |-> 100,
     selftext |-> <<"F","I","X">>]

PostD ==
    [id |-> "d", title |-> <<"n","e","w"," ","a","p","p">>, subreddit |-> "7",
     score |-> 5, num_comments |-> 0, created_utc |-> 100,
     selftext |-> <<>>]

PostE ==
    [id |-> "e", title |-> <<"n","e","w"," ","a","p","i">>, subreddit |-> "saas",
     score |-> 4, num_comments |-> 3, created_utc |-> 100,
     selftext |-> Undefined]

PostKinds == {PostA, PostB, PostC, PostD, PostE}

\* documents at the edges of the windows of 7 and 30 days that end at time 0
PostF ==
    [id |-> "f", title |-> <<"n","e","w">>, subreddit |-> "saas",
     score |-> 1, num_comments |-> 1, created_utc |-> 0 - 30 * 24 * 60 * 60,
     selftext |-> Undefined]

PostG ==
    [id |-> "g", title |-> <<"n","e","w">>, subreddit |-> "saas",
     score |-> 1, num_comments |-> 1, created_utc |-> 0 - 30 * 24 * 60 * 60 - 1,
     selftext |-> Undefined]

PostH ==
    [id |-> "h", title |-> <<"n","e","w">>, subreddit |-> "saas",
     score |-> 1, num_comments |-> 1, created_utc |-> 0 - 7 * 24 * 60 * 60,
     selftext |-> Undefined]

\* the i-th of many documents, created i seconds before time 0
ManyPost(i) ==
    [id |-> ToString(i), title |-> <<"n","e","w">>, subreddit |-> "saas",
     score |-> 1, num_comments |-> 1, created_utc |-> 0 - i,
     selftext |-> Undefined]

ManyPosts(n) == {ManyPost(i) : i \in 1..n}

\* find().sort({created_utc: -1}): documents in descending created_utc; the
\* place of a document is the number of newer documents plus its place among
\* the documents of its own created_utc, which is arbitrary but fixed
SortByCreatedDesc(S) ==
    LET peers(p) == {q \in S : q.created_utc = p.created_utc}
        order(G) == CHOOSE f \in [1..Cardinality(G) -> G] :
                        \A i, j \in DOMAIN f : f[i] = f[j] => i = j
        place(p) == Cardinality({q \in S : q.created_utc > p.created_utc})
                    + (CHOOSE i \in 1..Cardinality(peers(p)) : order(peers(p))[i] = p)
        placed == {<<place(p), p>> : p \in S}
    IN  [i \in 1..Cardinality(S) |-> (CHOOSE g \in placed : g[1] = i)[2]]

\* RedditPostRepository.findAll(limit, skip)
findAll(S, limit, skip) ==
    LET sorted == SortByCreatedDesc(S)
    IN  SubSeq(sorted, skip + 1,
               IF skip + limit < Len(sorted) THEN skip + limit ELSE Len(sorted))

\* cutoffTimestamp of getRecentPosts, computed at t (ms) for days:
\* floor((t - days * 86400000) / 1000) = floor(t / 1000) - days * 86400
cutoffTimestamp(t, days) == (t \div 1000) - days * DaySeconds

\* getRecentPosts: findAll(1000, 0) then filter(created_utc >= cutoff)
getRecentPosts(S, cutoff) ==
    SelectSeq(findAll(S, findAllLimit, 0), LAMBDA p : p.created_utc >= cutoff)

\* -------------------------------------------------------------------------
\* The records of the prompt (postsData)
\* -------------------------------------------------------------------------
\* the default of the limit parameter; neither caller passes a limit
defaultLimit == 500

trendBodyLength == 200

problemBodyLength == 300

\* variant: the whole array
sliceAll(s, limit) == s

\* Array.prototype.slice(0, limit), for limit >= 0: a new array
slice(s, limit) == SubSeq(s, 1, IF limit < Len(s) THEN limit ELSE Len(s))

\* String.prototype.substring(0, n), for n >= 0: a new string
substring(s, n) == SubSeq(s, 1, IF n < Len(s) THEN n ELSE Len(s))

\* post.selftext?.substring(0, n) || '': undefined and '' both give ''
bodyOf(post, n) ==
    IF post.selftext = Undefined THEN <<>>
    ELSE LET cut == substring(post.selftext, n)
         IN  IF cut = <<>> THEN <<>> ELSE cut

TwoDigits(n) == <<n \div 10, n % 10>>

\* new Date(seconds * 1000).toISOString() for a whole number of seconds in
\* the years 0000 to 9999, as the sequence of its digits and separators; the
\* calendar date is that of the proleptic Gregorian calendar, in UTC
toISOString(seconds) ==
    LET days == seconds \div DaySeconds
        secs == seconds % DaySeconds
        z == days + 719468
        era == z \div 146097
        doe == z - era * 146097
        yoe == (doe - doe \div 1460 + doe \div 36524 - doe \div 146096) \div 365
        doy == doe - (365 * yoe + yoe \div 4 - yoe \div 100)
        mp == (5 * doy + 2) \div 153
        day == doy - (153 * mp + 2) \div 5 + 1
        month == IF mp < 10 THEN mp + 3 ELSE mp - 9
        year == yoe + era * 400 + (IF month <= 2 THEN 1 ELSE 0)
    IN  TwoDigits(year \div 100) \o TwoDigits(year % 100) \o <<"-">>
            \o TwoDigits(month) \o <<"-">> \o TwoDigits(day) \o <<"T">>
            \o TwoDigits(secs \div 3600) \o <<":">>
            \o TwoDigits((secs % 3600) \div 60) \o <<":">>
            \o TwoDigits(secs % 60) \o <<".", 0, 0, 0, "Z">>

\* postsData of analyzeWithGemini ("trend") and of analyzeProblemsWithGemini
\* ("problem"), which JSON.stringify puts into the prompt
postsData(kind, posts) ==
    LET first == slice(posts, defaultLimit)
    IN  [i \in 1..Len(first) |->
            IF kind = "trend"
            THEN [title |-> first[i].title,
                  subreddit |-> first[i].subreddit,
                  score |-> first[i].score,
                  comments |-> first[i].num_comments,
                  date |-> toISOString(first[i].created_utc),
                  selftext |-> bodyOf(first[i], trendBodyLength)]
            ELSE [title |-> first[i].title,
                  subreddit |-> first[i].subreddit,
                  score |-> first[i].score,
                  comments |-> first[i].num_comments,
                  selftext |-> bodyOf(first[i], problemBodyLength)]]

\* -------------------------------------------------------------------------
\* Fallback analyzers
\* -------------------------------------------------------------------------
\* distinct subreddit labels in order of first occurrence (insertion order of
\* the keys of subredditCounts)
RECURSIVE FirstSeen(_)
FirstSeen(posts) ==
    IF posts = <<>> THEN <<>>
    ELSE LET rest == FirstSeen(SubSeq(posts, 1, Len(posts) - 1))
             l == Last(posts).subreddit
         IN  IF l \in Range(rest) THEN rest ELSE Append(rest, l)

\* labels that are canonical array indices, with their numeric value:
\* Object.entries lists such keys first, in ascending numeric order
IndexValue(l) ==
    CASE l = "7" -> 7
      [] l = "42" -> 42
      [] OTHER -> -1

RECURSIVE SortIndexKeys(_)
SortIndexKeys(S) ==
    IF S = {} THEN <<>>
    ELSE LET least == CHOOSE l \in S : \A m \in S : IndexValue(l) <= IndexValue(m)
         IN  <<least>> \o SortIndexKeys(S \ {least})

subredditCount(posts, l) == Len(SelectSeq(posts, LAMBDA p : p.subreddit = l))

\* Object.entries(subredditCounts)
ObjectEntries(posts) ==
    LET seen == FirstSeen(posts)
        idx == SortIndexKeys({l \in Range(seen) : IndexValue(l) >= 0})
        str == SelectSeq(seen, LAMBDA l : IndexValue(l) < 0)
    IN  [i \in 1..Len(seen) |->
            LET l == (idx \o str)[i] IN <<l, subredditCount(posts, l)>>]

\* stable insertion of entry e into a sequence sorted by count descending
RECURSIVE InsertDesc(_, _)
InsertDesc(sorted, e) ==
    IF sorted = <<>> THEN <<e>>
    ELSE IF Head(sorted)[2] >= e[2] THEN <<Head(sorted)>> \o InsertDesc(Tail(sorted), e)
         ELSE <<e>> \o sorted

\* .sort(([, a], [, b]) => b - a): stable, descending by count
RECURSIVE SortDesc(_)
SortDesc(entries) ==
    IF entries = <<>> THEN <<>>
    ELSE InsertDesc(SortDesc(SubSeq(entries, 1, Len(entries) - 1)), Last(entries))

topSubreddits(posts) ==
    LET sorted == SortDesc(ObjectEntries(posts))
    IN  SubSeq(sorted, 1, IF Len(sorted) < 3 THEN Len(sorted) ELSE 3)

\* Math.round((topSubreddits[0][1] / posts.length) * 100)
topGroupGrowth(count, total) ==
    DoubleRound(DoubleTimes(DoubleDiv(ToDouble(count), total), 100))

\* variant: a mean of exactly 100 counts
atLeastHundred(sum, total) == total > 0 /\ sum >= 100 * total

\* avgScore > 100, with avgScore = sum / posts.length; 0 / 0 is NaN and
\* NaN > 100 is false.  The division is correctly rounded and 100 is a
\* double, so the comparison of the quotient is that of the exact values.
aboveHundred(sum, total) == total > 0 /\ sum > 100 * total

\* Math.round((avgScore / 100) * 10), for avgScore above 100
highEngagementGrowth(sum, total) ==
    DoubleRound(DoubleTimes(DoubleDiv(DoubleDiv(ToDouble(sum), total), 100), 10))

getFallbackTrendAnalysis(posts) ==
    LET top == topSubreddits(posts)
        n == Len(posts)
        sumScore == SumBy(posts, "score")
        sumComments == SumBy(posts, "num_comments")
        first ==
            IF Len(top) > 0
            THEN << [trend |-> <<"Growing activity in ", top[1][1], " community">>,
                     growthPercentage |-> topGroupGrowth(top[1][2], n),
                     timePeriod |-> <<"30 days">>,
                     marketAnalysis |-> <<"High engagement community with ",
                                          MathRound(sumScore, n), " avg score and ",
                                          MathRound(sumComments, n), " avg comments">>,
                     competitionLevel |-> "Medium",
                     entryCost |-> "Low",
                     recommendation |-> <<"Consider building tools for ", top[1][1],
                                          " community needs">>,
                     confidence |-> 60] >>
            ELSE <<>>
        second ==
            IF aboveHundred(sumScore, n)
            THEN << [trend |-> <<"High-engagement content trend">>,
                     growthPercentage |-> highEngagementGrowth(sumScore, n),
                     timePeriod |-> <<"30 days">>,
                     marketAnalysis |-> <<"Content with high engagement indicates strong community interest">>,
                     competitionLevel |-> "High",
                     entryCost |-> "Medium",
                     recommendation |-> <<"Focus on content creation and community management tools">>,
                     confidence |-> 70] >>
            ELSE <<>>
    IN  first \o second

\* variant: only the title is searched
matchesKeywordInTitle(post) ==
    \E k \in Range(problemKeywords) : includes(toLowerCase(post.title), k)

matchesKeyword(post) ==
    \E k \in Range(problemKeywords) :
        \/ includes(toLowerCase(post.title), k)
        \/ post.selftext # Undefined /\ includes(toLowerCase(post.selftext), k)

\* the literal 0.3: the double nearest to three tenths
ThreeTenths == DoubleDiv(ToDouble(3), 10)

\* variant: exactly three tenths count as well
atLeastThirtyPercent(count, total) == count > 0 /\ 10 * count >= 3 * total

\* variant: no records count as more than 30% of no records
aboveThirtyPercentOfNone(count, total) ==
    IF total = 0 THEN TRUE ELSE count > DoubleFloor(DoubleTimes(ThreeTenths, total))

\* lowEngagementPosts.length > posts.length * 0.3: an integer is above a
\* double iff it is above its integer part
aboveThirtyPercent(count, total) ==
    IF total = 0 THEN count > 0
    ELSE count > DoubleFloor(DoubleTimes(ThreeTenths, total))

\* variant: the low-engagement check is made only when no keyword was found
getFallbackProblemAnalysisEither(posts) ==
    LET problemPosts == SelectSeq(posts, matchesKeyword)
        lowEngagementPosts ==
            SelectSeq(posts, LAMBDA p : p.score < 5 /\ p.num_comments < 3)
    IN  IF Len(problemPosts) > 0
        THEN << [problem |-> <<"User-reported issues and difficulties">>,
                 frequency |-> Len(problemPosts),
                 severity |-> IF Len(problemPosts) > 10 THEN "High" ELSE "Medium",
                 potentialSolutions |-> <<"User support tools",
                                          "Automated troubleshooting",
                                          "Community forums">>,
                 marketSize |-> "Large",
                 urgency |-> "High"] >>
        ELSE IF aboveThirtyPercent(Len(lowEngagementPosts), Len(posts))
        THEN << [problem |-> <<"Low engagement content">>,
                 frequency |-> Len(lowEngagementPosts),
                 severity |-> "Medium",
                 potentialSolutions |-> <<"Content optimization tools",
                                          "Engagement analytics",
                                          "A/B testing platforms">>,
                 marketSize |-> "Medium",
                 urgency |-> "Medium"] >>
        ELSE <<>>

getFallbackProblemAnalysis(posts) ==
    LET problemPosts == SelectSeq(posts, matchesKeyword)
        lowEngagementPosts ==
            SelectSeq(posts, LAMBDA p : p.score < 5 /\ p.num_comments < 3)
        first ==
            IF Len(problemPosts) > 0
            THEN << [problem |-> <<"User-reported issues and difficulties">>,
                     frequency |-> Len(problemPosts),
                     severity |-> IF Len(problemPosts) > 10 THEN "High" ELSE "Medium",
                     potentialSolutions |-> <<"User support tools",
                                              "Automated troubleshooting",
                                              "Community forums">>,
                     marketSize |-> "Large",
                     urgency |-> "High"] >>
            ELSE <<>>
        second ==
            IF aboveThirtyPercent(Len(lowEngagementPosts), Len(posts))
            THEN << [problem |-> <<"Low engagement content">>,
                     frequency |-> Len(lowEngagementPosts),
                     severity |-> "Medium",
                     potentialSolutions |-> <<"Content optimization tools",
                                              "Engagement analytics",
                                              "A/B testing platforms">>,
                     marketSize |-> "Medium",
                     urgency |-> "Medium"] >>
            ELSE <<>>
    IN  first \o second

\* every sequence getRecentPosts can return: a subset of the documents, newest first
Windows == {SortByCreatedDesc(S) : S \in SUBSET PostPool}

\* the two fallback analyzers, tabulated over the windows (evaluated once)
fallbackTrends == [w \in Windows |-> getFallbackTrendAnalysis(w)]

fallbackProblems == [w \in Windows |-> getFallbackProblemAnalysis(w)]

\* variant: both retry loops fall back to the trend analyzer
fallbackAlwaysTrend(kind, posts) == fallbackTrends[posts]

\* variant: the analyzers look at the newest record only
fallbackOfNewest(kind, posts) ==
    IF kind = "trend" THEN fallbackTrends[SubSeq(posts, 1, 1)]
    ELSE fallbackProblems[SubSeq(posts, 1, 1)]

\* the fallback of analyzeWithGemini (trend) and of analyzeProblemsWithGemini (problem)
fallbackOf(kind, posts) ==
    IF kind = "trend" THEN fallbackTrends[posts] ELSE fallbackProblems[posts]

\* -------------------------------------------------------------------------
\* Response texts of the inference service and their parsing
\* -------------------------------------------------------------------------
\* A response text is a sequence of tokens: a code fence, white space, or a
\* body.  JsonValue gives what JSON.parse makes of a body token.
\* three backquotes followed by json
FenceJson == "<fence>json"

\* three backquotes
Fence == "<fence>"

NewLine == "\n"

TrendGood ==
    [trend |-> <<"Brief description of the trend">>, growthPercentage |-> 47,
     timePeriod |-> <<"3 months">>,
     marketAnalysis |-> <<"Analysis of market potential and size">>,
     competitionLevel |-> "Low", entryCost |-> "High",
     recommendation |-> <<"Specific recommendation for SaaS opportunity">>,
     confidence |-> 85]

\* an element the service may send: fields missing, confidence out of range
TrendLoose == [trend |-> <<"AI agents">>, confidence |-> 150]

ProblemGood ==
    [problem |-> <<"Clear description of the problem">>, frequency |-> 15,
     severity |-> "High", potentialSolutions |-> <<"Solution 1", "Solution 2">>,
     marketSize |-> "Small", urgency |-> "Low"]

\* an element without potentialSolutions
ProblemLoose == [problem |-> <<"Manual invoicing">>, frequency |-> 3]

SyntaxError == [type |-> "SyntaxError"]

JsonValue(token) ==
    CASE token = "[trend]" -> [type |-> "array", items |-> <<TrendGood>>]
      [] token = "[trend?]" -> [type |-> "array", items |-> <<TrendLoose>>]
      [] token = "[problem]" -> [type |-> "array", items |-> <<ProblemGood>>]
      [] token = "[problem?]" -> [type |-> "array", items |-> <<ProblemLoose>>]
      [] token = "[]" -> [type |-> "array", items |-> <<>>]
      [] token = "{}" -> [type |-> "object"]
      [] OTHER -> SyntaxError

RECURSIVE DropLeadingSpace(_)
DropLeadingSpace(t) ==
    IF t # <<>> /\ Head(t) = NewLine THEN DropLeadingSpace(Tail(t)) ELSE t

RECURSIVE DropTrailingSpace(_)
DropTrailingSpace(t) ==
    IF t # <<>> /\ Last(t) = NewLine
    THEN DropTrailingSpace(SubSeq(t, 1, Len(t) - 1)) ELSE t

\* text.replace(/^<fence>json\s*|<fence>$/g, ""): the tagged fence at the very start
\* with the white space after it, and a fence at the very end of the text
stripFence(text) ==
    LET lead == IF text # <<>> /\ Head(text) = FenceJson
                THEN DropLeadingSpace(Tail(text)) ELSE text
    IN  IF lead # <<>> /\ Last(lead) = Fence
        THEN SubSeq(lead, 1, Len(lead) - 1) ELSE lead

\* JSON.parse: white space around one value
JSONparse(jsonString) ==
    LET core == DropTrailingSpace(DropLeadingSpace(jsonString))
    IN  IF Len(core) = 1 THEN JsonValue(core[1]) ELSE SyntaxError

\* variant: a value that is no array is passed on as the only insight
arrayOrItself(v) == IF v.type = "array" THEN v.items ELSE <<v>>

\* Array.isArray(x) ? x : []
arrayOrEmpty(v) == IF v.type = "array" THEN v.items ELSE <<>>

\* the texts the service answers with in this model
Fenced(body) == <<FenceJson, NewLine, body, NewLine, Fence>>

ResponseTexts(kind) ==
    IF kind = "trend"
    THEN {Fenced("[trend]"), <<"[trend?]">>, <<"{}">>, <<"Sorry, I cannot">>,
          Fenced("[trend]") \o <<NewLine>>}
    ELSE {Fenced("[problem]"), <<"[problem?]">>, <<"{}">>, <<"Sorry, I cannot">>,
          Fenced("[]")}

\* -------------------------------------------------------------------------
\* Report synthesis (the body of generateReport after Promise.all)
\* -------------------------------------------------------------------------
\* ${e.f} in a template literal
Field(e, f) == IF f \in DOMAIN e THEN e[f] ELSE "undefined"

trendLines(trends) ==
    [k \in 1..(5 * Len(trends)) |->
        LET index == (k - 1) \div 5
            trend == trends[index + 1]
            line == (k - 1) % 5
        IN  CASE line = 0 -> <<index + 1, ". ", Field(trend, "trend"), " (+",
                               Field(trend, "growthPercentage"), "% over ",
                               Field(trend, "timePeriod"), ")">>
              [] line = 1 -> <<"   Market: ", Field(trend, "marketAnalysis")>>
              [] line = 2 -> <<"   Competition: ", Field(trend, "competitionLevel"),
                               " | Entry Cost: ", Field(trend, "entryCost")>>
              [] line = 3 -> <<"   Recommendation: ", Field(trend, "recommendation")>>
              [] OTHER -> <<"   Confidence: ", Field(trend, "confidence"), "%">>]

\* variant: the items of the problems block are numbered from 0
problemLinesFromZero(problems) ==
    [k \in 1..(4 * Len(problems)) |->
        LET index == (k - 1) \div 4
            problem == problems[index + 1]
            line == (k - 1) % 4
        IN  CASE line = 0 -> <<index, ". ", Field(problem, "problem")>>
              [] line = 1 -> <<"   Frequency: ", Field(problem, "frequency"),
                               " mentions | Severity: ", Field(problem, "severity")>>
              [] line = 2 -> <<"   Market Size: ", Field(problem, "marketSize"),
                               " | Urgency: ", Field(problem, "urgency")>>
              [] OTHER -> <<"   Potential Solutions: ", problem.potentialSolutions>>]

problemLines(problems) ==
    [k \in 1..(4 * Len(problems)) |->
        LET index == (k - 1) \div 4
            problem == problems[index + 1]
            line == (k - 1) % 4
        IN  CASE line = 0 -> <<index + 1, ". ", Field(problem, "problem")>>
              [] line = 1 -> <<"   Frequency: ", Field(problem, "frequency"),
                               " mentions | Severity: ", Field(problem, "severity")>>
              [] line = 2 -> <<"   Market Size: ", Field(problem, "marketSize"),
                               " | Urgency: ", Field(problem, "urgency")>>
              [] OTHER -> <<"   Potential Solutions: ", problem.potentialSolutions>>]

\* problem.potentialSolutions.join(', ') on a missing field: TypeError
reportThrows(trends, problems) ==
    \E k \in DOMAIN problems : "potentialSolutions" \notin DOMAIN problems[k]

\* variant: no sentence for the report without insights
reportTextWithoutNotice(days, trends, problems) ==
    << <<"=== TREND ANALYSIS REPORT (", days, " days) ===">> >>
    \o (IF Len(trends) > 0
        THEN << <<"EMERGING TRENDS:">> >> \o trendLines(trends) ELSE <<>>)
    \o (IF Len(problems) > 0
        THEN << <<"IDENTIFIED PROBLEMS:">> >> \o problemLines(problems) ELSE <<>>)
    \o << <<"=== END OF REPORT ===">> >>

\* variant: the problems block rendered before the trends block
reportTextProblemsFirst(days, trends, problems) ==
    << <<"=== TREND ANALYSIS REPORT (", days, " days) ===">> >>
    \o (IF Len(problems) > 0
        THEN << <<"IDENTIFIED PROBLEMS:">> >> \o problemLines(problems) ELSE <<>>)
    \o (IF Len(trends) > 0
        THEN << <<"EMERGING TRENDS:">> >> \o trendLines(trends) ELSE <<>>)
    \o (IF Len(trends) = 0 /\ Len(problems) = 0
        THEN << <<"No significant trends or problems identified in the current data.">> >>
        ELSE <<>>)
    \o << <<"=== END OF REPORT ===">> >>

reportText(days, trends, problems) ==
    << <<"=== TREND ANALYSIS REPORT (", days, " days) ===">> >>
    \o (IF Len(trends) > 0
        THEN << <<"EMERGING TRENDS:">> >> \o trendLines(trends) ELSE <<>>)
    \o (IF Len(problems) > 0
        THEN << <<"IDENTIFIED PROBLEMS:">> >> \o problemLines(problems) ELSE <<>>)
    \o (IF Len(trends) = 0 /\ Len(problems) = 0
        THEN << <<"No significant trends or problems identified in the current data.">> >>
        ELSE <<>>)
    \o << <<"=== END OF REPORT ===">> >>

\* -------------------------------------------------------------------------
\* State
\* -------------------------------------------------------------------------
\* The days argument: the default of generateReport, passed by handleWeeklyAnalysis
DaysChoices == {30}

\* generateReport runs analyzeTrends and analyzeProblems under Promise.all;
\* an analysis is named by its kind
Analyses == {"trend", "problem"}

VARIABLES
    now,                      \* Date.now(), ms
    circuitBreakerOpen,       \* TrendAnalysisService.circuitBreakerOpen
    circuitBreakerResetTime,  \* TrendAnalysisService.circuitBreakerResetTime
    store,                    \* documents in the reddit post collection
    runs,                     \* generateReport invocations started so far
    call,                     \* the current generateReport invocation
    pc,                       \* per analysis: where the async function is suspended
    attempt,                  \* per analysis: loop variable of the retry loop
    cutoff,                   \* per analysis: cutoffTimestamp of getRecentPosts
    recentPosts,              \* per analysis: the posts it works on
    result,                   \* per analysis: the value it returned
    wakeAt,                   \* per analysis: when its backoff timer fires
    lastRequestTime,          \* RedditService.lastRequestTime
    reddit,                   \* per caller: the RedditService call it runs
    saving,                   \* the current createMany invocation
    hist,                     \* per analysis: what it did (observation only)
    breakerLog                \* last exhaustion, whether a success followed, and the
                              \* analysis that wrote the breaker last (observation only)

vars == <<now, circuitBreakerOpen, circuitBreakerResetTime, store, runs,
          call,
          pc, attempt, cutoff, recentPosts, result, wakeAt, hist, breakerLog,
          lastRequestTime, reddit, saving>>

\* the state of RedditService and of RedditPostRepository.createMany
ingestion == <<lastRequestTime, reddit, saving>>

Callers == 1..MaxCallers

\* a caller before its call: where it is, when its rate limit timer fires,
\* when it last left ensureRateLimit, and the locals of searchAllPosts /
\* getAllSubredditPosts
idleCaller ==
    [pc |-> "idle", wakeAt |-> 0, passedAt |-> 0, maxResults |-> 0, maxRequests |-> 0,
     allPosts |-> <<>>, after |-> FALSE, totalRequests |-> 0]

\* createMany before it is called: its argument, the index of the element
\* the for loop is at, its counters and the message of the error it threw;
\* duplicates counts the saves that the unique index on id rejected, and
\* before is the collection as it was at the call
idleSaving ==
    [pc |-> "idle", postsData |-> <<>>, index |-> 0, created |-> 0, skipped |-> 0,
     error |-> <<>>, duplicates |-> 0, before |-> {}]

\* RedditService as constructed, no createMany running
ingestionInit ==
    /\ lastRequestTime = 0
    /\ reddit = [c \in Callers |-> idleCaller]
    /\ saving = idleSaving

breaker == <<circuitBreakerOpen, circuitBreakerResetTime>>

idleCall == [status |-> "idle", days |-> 0, error |-> "none", report |-> <<>>]

noHist ==
    [calls |-> 0, failed |-> 0, failure |-> "none", closes |-> 0, opens |-> 0,
     observed |-> "none", peers |-> {}, path |-> "none", text |-> <<>>]

Init ==
    /\ now = 0
    /\ circuitBreakerOpen = FALSE
    /\ circuitBreakerResetTime = 0
    /\ store = {PostB}
    /\ runs = 0
    /\ call = idleCall
    /\ pc = [a \in Analyses |-> "idle"]
    /\ attempt = [a \in Analyses |-> 0]
    /\ cutoff = [a \in Analyses |-> 0]
    /\ recentPosts = [a \in Analyses |-> <<>>]
    /\ result = [a \in Analyses |-> <<>>]
    /\ wakeAt = [a \in Analyses |-> 0]
    /\ hist = [a \in Analyses |-> noHist]
    /\ breakerLog = [exhaustedAt |-> -1, succeededSince |-> FALSE, by |-> "none"]
    /\ ingestionInit

inFlight(a) == pc[a] \in {"fetching", "calling", "waiting"}

\* -------------------------------------------------------------------------
\* The pieces of the breaker and of the retry loop
\* -------------------------------------------------------------------------
\* variant: the breaker never denies
breakerDeniesNever(open, t, resetTime) == FALSE

\* variant: the comparison with the reset time turned around
breakerDeniesInverted(open, t, resetTime) == open /\ t > resetTime

\* variant: an open breaker never lets a call through again
breakerDeniesForever(open, t, resetTime) == open

\* the breaker check at the top of analyzeWithGemini / analyzeProblemsWithGemini
breakerDenies(open, t, resetTime) == open /\ t < resetTime

\* variant: the loop gives up one attempt later
isFinalAttemptLate(n) == n = maxRetries + 1

\* attempt === maxRetries in the catch block
isFinalAttempt(n) == n = maxRetries

\* variant: every failed attempt opens the breaker
openAfterAnyFailure(open, n) == TRUE

\* variant: the breaker opens one attempt early
openAfterSecondFailure(open, n) == IF n >= maxRetries - 1 THEN TRUE ELSE open

\* circuitBreakerOpen after the catch block of attempt n
openAfterFailure(open, n) == IF isFinalAttempt(n) THEN TRUE ELSE open

\* variant: every failed attempt pushes the reset time
resetTimeAfterEveryFailure(resetTime, n, t) == t + circuitBreakerTimeout

\* variant: the cooldown is not added to the reset time
resetTimeWithoutCooldown(resetTime, n, t) ==
    IF isFinalAttempt(n) THEN t ELSE resetTime

\* circuitBreakerResetTime after the catch block of attempt n run at time t
resetTimeAfterFailure(resetTime, n, t) ==
    IF isFinalAttempt(n) THEN t + circuitBreakerTimeout ELSE resetTime

\* variant: a denied call starts the cooldown again
resetTimeRestartedByDenial(resetTime, t) == t + circuitBreakerTimeout

\* circuitBreakerResetTime after the breaker check has denied a call at time
\* t: the branch returns the fallback and assigns nothing
resetTimeAfterDenial(resetTime, t) == resetTime

\* variant: a success leaves the breaker as it is
openAfterSuccessKeeps(open) == open

\* circuitBreakerOpen after a successful attempt
openAfterSuccess(open) == FALSE

\* variant: the same delay after every attempt
backoffConstant(n, t) == t + retryDelay

\* setTimeout(resolve, retryDelay * attempt) set at time t
backoffDeadline(n, t) == t + retryDelay * n

\* variant: a timer that never fires
timerNeverDue(t, deadline) == FALSE

\* the promise of setTimeout(resolve, ms) resolves once the clock has reached
\* the deadline
timerDue(t, deadline) == t >= deadline

\* the continuation of generateReport after Promise.all, given the state of
\* the two analyses: Promise.all rejects as soon as one analysis throws, and
\* resolves when both have returned
settled(c, pcs, results) ==
    IF c.status # "pending" THEN c
    ELSE IF pcs["trend"] = "failed" \/ pcs["problem"] = "failed"
         THEN [c EXCEPT !.status = "threw", !.error = "ProviderFailure"]
    ELSE IF pcs["trend"] = "done" /\ pcs["problem"] = "done"
         THEN IF reportThrows(results["trend"], results["problem"])
              THEN [c EXCEPT !.status = "threw", !.error = "TypeError"]
              ELSE [c EXCEPT !.status = "returned",
                             !.report = reportText(c.days, results["trend"],
                                                   results["problem"])]
    ELSE c

\* -------------------------------------------------------------------------
\* Actions: one per run-to-next-await of the event loop
\* -------------------------------------------------------------------------
\* A cron handler calls generateReport(days): analyzeTrends and
\* analyzeProblems both run up to the findAll they await in getRecentPosts.
\* Invocations of generateReport follow one another; the two analyses of one
\* invocation overlap.
generateReport(days) ==
    /\ runs < MaxRuns
    /\ call.status # "pending"
    /\ \A a \in Analyses : ~inFlight(a)
    /\ runs' = runs + 1
    /\ call' = [idleCall EXCEPT !.status = "pending", !.days = days]
    /\ pc' = [a \in Analyses |-> "fetching"]
    /\ cutoff' = [a \in Analyses |-> cutoffTimestamp(now, days)]
    /\ attempt' = [a \in Analyses |-> 0]
    /\ recentPosts' = [a \in Analyses |-> <<>>]
    /\ result' = [a \in Analyses |-> <<>>]
    /\ wakeAt' = [a \in Analyses |-> 0]
    /\ hist' = [a \in Analyses |-> noHist]
    /\ UNCHANGED <<now, breaker, store, breakerLog>>
    /\ UNCHANGED ingestion

\* findAll resolves: the filter, the empty check, the breaker check and, if
\* the breaker allows it, the first generateContent call
getRecentPostsResolves(a) ==
    /\ pc[a] = "fetching"
    /\ LET window == getRecentPosts(store, cutoff[a])
           denied == breakerDenies(circuitBreakerOpen, now, circuitBreakerResetTime)
       IN  /\ recentPosts' = [recentPosts EXCEPT ![a] = window]
           /\ IF window = <<>>
              THEN /\ pc' = [pc EXCEPT ![a] = "done"]
                   /\ result' = [result EXCEPT ![a] = <<>>]
                   /\ hist' = [hist EXCEPT ![a].path = "empty"]
                   /\ UNCHANGED attempt
              ELSE IF denied
              THEN /\ pc' = [pc EXCEPT ![a] = "done"]
                   /\ result' = [result EXCEPT ![a] = fallbackOf(a, window)]
                   /\ hist' = [hist EXCEPT ![a].path = "denied", ![a].observed = "OPEN"]
                   /\ UNCHANGED attempt
              ELSE /\ pc' = [pc EXCEPT ![a] = "calling"]
                   /\ attempt' = [attempt EXCEPT ![a] = 1]
                   /\ hist' = [hist EXCEPT
                                 ![a].calls = 1,
                                 ![a].observed =
                                     IF circuitBreakerOpen THEN "EXPIRED" ELSE "CLOSED",
                                 ![a].peers =
                                     {b \in Analyses : pc[b] \in {"calling", "waiting"}}]
                   /\ UNCHANGED result
           /\ circuitBreakerResetTime' =
                  IF window # <<>> /\ denied
                  THEN resetTimeAfterDenial(circuitBreakerResetTime, now)
                  ELSE circuitBreakerResetTime
    /\ call' = settled(call, pc', result')
    /\ UNCHANGED <<now, circuitBreakerOpen, store, runs, cutoff, wakeAt, breakerLog>>
    /\ UNCHANGED ingestion

\* findAll rejects: the analysis rethrows, Promise.all rejects
getRecentPostsRejects(a) ==
    /\ pc[a] = "fetching"
    /\ pc' = [pc EXCEPT ![a] = "failed"]
    /\ call' = settled(call, pc', result)
    /\ UNCHANGED <<now, breaker, store, runs, attempt, cutoff, recentPosts, result,
                   wakeAt, hist, breakerLog>>
    /\ UNCHANGED ingestion

\* the catch block of the retry loop, entered by analysis a for reason why
attemptFailed(a, why) ==
    /\ circuitBreakerOpen' = openAfterFailure(circuitBreakerOpen, attempt[a])
    /\ circuitBreakerResetTime' =
           resetTimeAfterFailure(circuitBreakerResetTime, attempt[a], now)
    /\ IF isFinalAttempt(attempt[a])
       THEN /\ pc' = [pc EXCEPT ![a] = "done"]
            /\ result' = [result EXCEPT ![a] = fallbackOf(a, recentPosts[a])]
            /\ UNCHANGED wakeAt
       ELSE /\ pc' = [pc EXCEPT ![a] = "waiting"]
            /\ wakeAt' = [wakeAt EXCEPT ![a] = backoffDeadline(attempt[a], now)]
            /\ UNCHANGED result
    /\ hist' = [hist EXCEPT
                  ![a].failed = @ + 1,
                  ![a].failure = why,
                  ![a].opens = IF isFinalAttempt(attempt[a])
                                  \/ circuitBreakerOpen' # circuitBreakerOpen
                               THEN @ + 1 ELSE @,
                  ![a].path = IF pc'[a] = "done" THEN "exhausted" ELSE @]
    /\ breakerLog' =
           IF pc'[a] = "done"
           THEN [exhaustedAt |-> now, succeededSince |-> FALSE, by |-> a]
           ELSE breakerLog
    /\ call' = settled(call, pc', result')
    /\ UNCHANGED <<now, store, runs, attempt, cutoff, recentPosts>>

\* generateContent resolves with text: strip the fence, JSON.parse; a
\* SyntaxError is caught by the catch block of the attempt
generateContentResolves(a, text) ==
    /\ pc[a] = "calling"
    /\ LET trends == JSONparse(stripFence(text))
       IN  IF trends = SyntaxError
           THEN attemptFailed(a, "malformed")
           ELSE /\ circuitBreakerOpen' = openAfterSuccess(circuitBreakerOpen)
                /\ pc' = [pc EXCEPT ![a] = "done"]
                /\ result' = [result EXCEPT ![a] = arrayOrEmpty(trends)]
                /\ hist' = [hist EXCEPT ![a].closes = @ + 1, ![a].path = "success",
                                        ![a].text = text]
                /\ breakerLog' = [breakerLog EXCEPT !.succeededSince = TRUE, !.by = a]
                /\ call' = settled(call, pc', result')
                /\ UNCHANGED <<now, circuitBreakerResetTime, store, runs,
                               attempt, cutoff, recentPosts, wakeAt>>
    /\ UNCHANGED ingestion

\* generateContent rejects
generateContentRejects(a) ==
    /\ pc[a] = "calling"
    /\ attemptFailed(a, "rejected")
    /\ UNCHANGED ingestion

\* the backoff timer fires: next iteration of the loop, next generateContent call
backoffElapsed(a) ==
    /\ pc[a] = "waiting"
    /\ timerDue(now, wakeAt[a])
    /\ attempt' = [attempt EXCEPT ![a] = @ + 1]
    /\ pc' = [pc EXCEPT ![a] = "calling"]
    /\ hist' = [hist EXCEPT ![a].calls = @ + 1, ![a].failure = "none"]
    /\ wakeAt' = [wakeAt EXCEPT ![a] = 0]
    /\ UNCHANGED <<now, breaker, store, runs, call, cutoff, recentPosts,
                   result, breakerLog>>
    /\ UNCHANGED ingestion

\* time passes until the earliest pending backoff timer is due
TickToTimer ==
    /\ \E a \in Analyses :
          /\ pc[a] = "waiting" /\ wakeAt[a] > now
          /\ \A b \in Analyses : pc[b] = "waiting" => wakeAt[a] <= wakeAt[b]
          /\ now' = wakeAt[a]
    /\ UNCHANGED <<breaker, store, runs, call, pc, attempt, cutoff, recentPosts,
                   result, wakeAt, hist, breakerLog>>
    /\ UNCHANGED ingestion

\* A whole cooldown passes.  The code compares the clock with the reset time
\* only in the breaker check and only when the breaker is open, so this is
\* followed only while the breaker is open, its reset time is still ahead and
\* a check is still to come.
TickCooldown ==
    /\ circuitBreakerOpen
    /\ now < circuitBreakerResetTime
    /\ \E a \in Analyses : pc[a] = "fetching"
    /\ now' = now + circuitBreakerTimeout
    /\ UNCHANGED <<breaker, store, runs, call, pc, attempt, cutoff, recentPosts, result,
                   wakeAt, hist, breakerLog>>
    /\ UNCHANGED ingestion

\* The ingestion side stores a document (RedditService.savePostsToDatabase
\* through RedditPostRepository.createMany / upsertMany); nothing in the
\* program removes one.  The collection is read only by the pending findAll
\* of getRecentPosts, so its growth is followed only while one is pending.
storeCreate(p) ==
    /\ \E a \in Analyses : pc[a] = "fetching"
    /\ p \notin store
    /\ store' = store \cup {p}
    /\ UNCHANGED <<now, breaker, runs, call, pc, attempt, cutoff, recentPosts,
                   result, wakeAt, hist, breakerLog>>
    /\ UNCHANGED ingestion

Next ==
    \/ \E days \in DaysChoices : generateReport(days)
    \/ \E a \in Analyses : getRecentPostsResolves(a)
    \/ \E a \in Analyses : getRecentPostsRejects(a)
    \/ \E a \in Analyses : \E text \in ResponseTexts(a) : generateContentResolves(a, text)
    \/ \E a \in Analyses : generateContentRejects(a)
    \/ \E a \in Analyses : backoffElapsed(a)
    \/ TickToTimer
    \/ TickCooldown
    \/ \E p \in PostPool : storeCreate(p)

Spec == Init /\ [][Next]_vars


\* The service under total outage: no generateContent call ever resolves.
OutageNext ==
    \/ \E days \in DaysChoices : generateReport(days)
    \/ \E a \in Analyses : getRecentPostsResolves(a)
    \/ \E a \in Analyses : getRecentPostsRejects(a)
    \/ \E a \in Analyses : generateContentRejects(a)
    \/ \E a \in Analyses : backoffElapsed(a)
    \/ TickToTimer
    \/ TickCooldown
    \/ \E p \in PostPool : storeCreate(p)

\* The event loop keeps running: while a promise is pending or a timer is
\* set, one of them eventually settles or fires.
OutageProgress ==
    \/ \E a \in Analyses : getRecentPostsResolves(a)
    \/ \E a \in Analyses : getRecentPostsRejects(a)
    \/ \E a \in Analyses : generateContentRejects(a)
    \/ \E a \in Analyses : backoffElapsed(a)
    \/ TickToTimer

OutageSpec == Init /\ [][OutageNext]_vars /\ WF_vars(OutageProgress)

\* The service with a running event loop and no assumption on the outcome of
\* the calls: every pending findAll and generateContent promise eventually
\* settles, one way or the other, and every timer that is set eventually fires.
\* The collection keeps the documents it starts with; a window becomes empty
\* as the clock moves past its only document.
FairNext ==
    \/ \E days \in DaysChoices : generateReport(days)
    \/ \E a \in Analyses : getRecentPostsResolves(a)
    \/ \E a \in Analyses : getRecentPostsRejects(a)
    \/ \E a \in Analyses : \E text \in ResponseTexts(a) : generateContentResolves(a, text)
    \/ \E a \in Analyses : generateContentRejects(a)
    \/ \E a \in Analyses : backoffElapsed(a)
    \/ TickToTimer
    \/ TickCooldown

Progress ==
    \/ \E a \in Analyses : getRecentPostsResolves(a)
    \/ \E a \in Analyses : getRecentPostsRejects(a)
    \/ \E a \in Analyses : \E text \in ResponseTexts(a) : generateContentResolves(a, text)
    \/ \E a \in Analyses : generateContentRejects(a)
    \/ \E a \in Analyses : backoffElapsed(a)
    \/ TickToTimer

FairSpec == Init /\ [][FairNext]_vars /\ WF_vars(Progress)

\* -------------------------------------------------------------------------
\* The service with breaker checks in the middle of a cooldown
\* -------------------------------------------------------------------------
\* Half a cooldown passes while the breaker is open and a check is still to
\* come, and the reset time is still ahead afterwards.
TickWithinCooldown ==
    /\ circuitBreakerOpen
    /\ now + circuitBreakerTimeout \div 2 < circuitBreakerResetTime
    /\ \E a \in Analyses : pc[a] = "fetching"
    /\ now' = now + circuitBreakerTimeout \div 2
    /\ UNCHANGED <<breaker, store, runs, call, pc, attempt, cutoff, recentPosts, result,
                   wakeAt, hist, breakerLog>>
    /\ UNCHANGED ingestion

CooldownNext == Next \/ TickWithinCooldown

CooldownSpec == Init /\ [][CooldownNext]_vars

\* -------------------------------------------------------------------------
\* RedditService: the rate limit
\* -------------------------------------------------------------------------
\* the state of TrendAnalysisService and the collection
analysis ==
    <<breaker, store, runs, call, pc, attempt, cutoff, recentPosts, result, wakeAt,
      hist, breakerLog>>

\* lastRequestTime after the synchronous part of ensureRateLimit run at time
\* t: assigned only if there is no wait
lastRequestTimeAfterCheck(last, t) == IF t - last < requestDelay THEN last ELSE t

\* ensureRateLimit up to its await, called by c whose locals are locals:
\* with time left to wait, a timer for the rest of requestDelay; with none,
\* lastRequestTime is assigned and the caller goes on to its request
ensureRateLimit(c, locals) ==
    LET timeSinceLastRequest == now - lastRequestTime
    IN  /\ lastRequestTime' = lastRequestTimeAfterCheck(lastRequestTime, now)
        /\ reddit' =
               [reddit EXCEPT ![c] =
                   IF timeSinceLastRequest < requestDelay
                   THEN [locals EXCEPT !.pc = "limited",
                                       !.wakeAt = now + (requestDelay - timeSinceLastRequest)]
                   ELSE [locals EXCEPT !.pc = "requesting", !.passedAt = now]]

\* searchPosts / getSubredditPosts called by c: await this.ensureRateLimit()
searchPosts(c) ==
    /\ reddit[c].pc = "idle"
    /\ ensureRateLimit(c, reddit[c])
    /\ UNCHANGED <<now, analysis, saving>>

\* the timer of ensureRateLimit fires: lastRequestTime is assigned, the caller
\* goes on to its request
rateLimitElapsed(c) ==
    /\ reddit[c].pc = "limited"
    /\ timerDue(now, reddit[c].wakeAt)
    /\ lastRequestTime' = now
    /\ reddit' = [reddit EXCEPT ![c].pc = "requesting", ![c].passedAt = now, ![c].wakeAt = 0]
    /\ UNCHANGED <<now, analysis, saving>>

\* axiosInstance.get settles and searchPosts / getSubredditPosts returns or throws
searchPostsSettles(c) ==
    /\ reddit[c].pc = "requesting"
    /\ reddit[c].maxRequests = 0
    /\ reddit' = [reddit EXCEPT ![c].pc = "done"]
    /\ UNCHANGED <<now, analysis, lastRequestTime, saving>>

\* time passes until the earliest pending rate limit timer is due
TickToRateLimit ==
    /\ \E c \in Callers :
          /\ reddit[c].pc = "limited" /\ reddit[c].wakeAt > now
          /\ \A d \in Callers : reddit[d].pc = "limited" => reddit[c].wakeAt <= reddit[d].wakeAt
          /\ now' = reddit[c].wakeAt
    /\ UNCHANGED <<analysis, ingestion>>

\* half of requestDelay passes before the next call is made
TickBeforeCall ==
    /\ \E c \in Callers : reddit[c].pc = "idle"
    /\ now < requestDelay * (MaxCallers + 1)
    /\ now' = now + requestDelay \div 2
    /\ UNCHANGED <<analysis, ingestion>>

\* the service has been up for requestDelay at least; Date.now() is far
\* above requestDelay
RateLimitInit ==
    /\ now = requestDelay
    /\ circuitBreakerOpen = FALSE
    /\ circuitBreakerResetTime = 0
    /\ store = {}
    /\ runs = 0
    /\ call = idleCall
    /\ pc = [a \in Analyses |-> "idle"]
    /\ attempt = [a \in Analyses |-> 0]
    /\ cutoff = [a \in Analyses |-> 0]
    /\ recentPosts = [a \in Analyses |-> <<>>]
    /\ result = [a \in Analyses |-> <<>>]
    /\ wakeAt = [a \in Analyses |-> 0]
    /\ hist = [a \in Analyses |-> noHist]
    /\ breakerLog = [exhaustedAt |-> -1, succeededSince |-> FALSE, by |-> "none"]
    /\ ingestionInit

RateLimitNext ==
    \/ \E c \in Callers : searchPosts(c)
    \/ \E c \in Callers : rateLimitElapsed(c)
    \/ \E c \in Callers : searchPostsSettles(c)
    \/ TickToRateLimit
    \/ TickBeforeCall

RateLimitSpec == RateLimitInit /\ [][RateLimitNext]_vars

\* -------------------------------------------------------------------------
\* RedditService: searchAllPosts / getAllSubredditPosts
\* -------------------------------------------------------------------------
\* allPosts.length < maxResults && totalRequests < maxRequests
mayGoOn(locals) ==
    /\ Len(locals.allPosts) < locals.maxResults
    /\ locals.totalRequests < locals.maxRequests

\* the head of the while loop reached by c with locals: into ensureRateLimit
\* for the next batch, or out of the loop and return
whileLoop(c, locals) ==
    IF mayGoOn(locals)
    THEN ensureRateLimit(c, locals)
    ELSE /\ reddit' = [reddit EXCEPT ![c] = [locals EXCEPT !.pc = "returned"]]
         /\ UNCHANGED lastRequestTime

\* Math.ceil(maxResults / 100)
maxRequestsOf(maxResults) == DoubleCeil(DoubleDiv(ToDouble(maxResults), batchLimit))

\* searchAllPosts / getAllSubredditPosts called by c with maxResults
searchAllPosts(c, maxResults) ==
    /\ reddit[c].pc = "idle"
    /\ whileLoop(c, [reddit[c] EXCEPT !.maxResults = maxResults,
                                      !.maxRequests = maxRequestsOf(maxResults),
                                      !.allPosts = <<>>,
                                      !.after = FALSE,
                                      !.totalRequests = 0])
    /\ UNCHANGED <<now, analysis, saving>>

\* allPosts.splice(start), for start >= 0: what is left in allPosts
splice(s, start) == SubSeq(s, 1, IF start < Len(s) THEN start ELSE Len(s))

\* the posts of the batch of request n: each is named by its request and
\* its place in the batch
batchPosts(n, size) == [i \in 1..size |-> <<n, i>>]

\* axiosInstance.get resolves with size posts and, if cursor, a value of
\* after: the rest of the loop body, and the loop head if no break is taken
batchArrives(c, size, cursor) ==
    /\ reddit[c].pc = "requesting"
    /\ reddit[c].maxRequests > 0
    /\ LET pushed == [reddit[c] EXCEPT
                         !.allPosts = @ \o batchPosts(reddit[c].totalRequests + 1, size),
                         !.after = cursor,
                         !.totalRequests = @ + 1]
       IN  IF ~cursor \/ size = 0
           THEN /\ reddit' = [reddit EXCEPT ![c] = [pushed EXCEPT !.pc = "returned"]]
                /\ UNCHANGED lastRequestTime
           ELSE IF Len(pushed.allPosts) >= pushed.maxResults
           THEN /\ reddit' = [reddit EXCEPT ![c] =
                                  [pushed EXCEPT
                                      !.allPosts = splice(@, pushed.maxResults),
                                      !.pc = "returned"]]
                /\ UNCHANGED lastRequestTime
           ELSE whileLoop(c, pushed)
    /\ UNCHANGED <<now, analysis, saving>>

\* axiosInstance.get rejects: the catch block logs and rethrows
batchFails(c) ==
    /\ reddit[c].pc = "requesting"
    /\ reddit[c].maxRequests > 0
    /\ reddit' = [reddit EXCEPT ![c].pc = "threw"]
    /\ UNCHANGED <<now, analysis, lastRequestTime, saving>>

\* the values of maxResults tried, and the sizes of a batch
MaxResultsChoices == {1, 50, 100, 101, 150, 250}

BatchSizes == {0, 1, 50, 100}

\* one call at a time, made by the first caller
AllPostsNext ==
    \/ \E maxResults \in MaxResultsChoices : searchAllPosts(1, maxResults)
    \/ rateLimitElapsed(1)
    \/ \E size \in BatchSizes : \E cursor \in BOOLEAN : batchArrives(1, size, cursor)
    \/ batchFails(1)
    \/ TickToRateLimit

AllPostsSpec == RateLimitInit /\ [][AllPostsNext]_vars

\* -------------------------------------------------------------------------
\* RedditPostRepository: create and createMany
\* -------------------------------------------------------------------------
\* a post without title, which the schema requires
PostN ==
    [id |-> "n", title |-> Undefined, subreddit |-> "saas",
     score |-> 1, num_comments |-> 1, created_utc |-> 100,
     selftext |-> Undefined]

\* the message of the ValidationError of save() for a missing title
validationMessage ==
    <<"R","e","d","d","i","t","P","o","s","t"," ","v","a","l","i","d","a","t","i","o","n"," ","f","a","i","l","e","d",":"," ","t","i","t","l","e",":"," ","P","a","t","h"," ","'","t","i","t","l","e","'"," ","i","s"," ","r","e","q","u","i","r","e","d",".">>

\* the message of the error of save() when the connection is lost
connectionMessage ==
    <<"c","o","n","n","e","c","t","i","o","n"," ","t","i","m","e","d"," ","o","u","t">>

\* the message create gives to the error it throws for code 11000
duplicateMessage(post) ==
    <<"P","o","s","t"," ","w","i","t","h"," ","i","d"," ">> \o <<post.id>>
        \o <<" ","a","l","r","e","a","d","y"," ","e","x","i","s","t","s">>

\* what create(postData) throws, as [code, message], or noError: save()
\* validates first, then inserts, and the unique index on id rejects a
\* second document of the same id with code 11000; lost tells that the
\* connection fails at the insert
noError == [code |-> 0, message |-> <<>>]

create(post, S, lost) ==
    IF post.title = Undefined THEN [code |-> 0, message |-> validationMessage]
    ELSE IF lost THEN [code |-> 0, message |-> connectionMessage]
    ELSE IF \E q \in S : q.id = post.id
         THEN [code |-> 11000, message |-> duplicateMessage(post)]
    ELSE noError

\* variant: every error counts as a duplicate
alreadyExistsOrNot(message) == TRUE

\* error.message.includes('already exists')
alreadyExists(message) ==
    includes(message, <<"a","l","r","e","a","d","y"," ","e","x","i","s","t","s">>)

\* createMany(postsData) is called: the counters are set, and the first
\* create is awaited unless there is nothing to create
createMany ==
    /\ saving.pc = "idle"
    /\ saving' = [saving EXCEPT !.pc = IF saving.postsData = <<>> THEN "returned" ELSE "creating",
                                !.index = 1, !.created = 0, !.skipped = 0,
                                !.before = store]
    /\ UNCHANGED <<now, analysis, lastRequestTime, reddit>>

\* the create that createMany awaits settles: created++, or the catch block
\* with skipped++ or throw, and the next element of postsData or return
createSettles(lost) ==
    /\ saving.pc = "creating"
    /\ LET postData == saving.postsData[saving.index]
           error == create(postData, store, lost)
           last == saving.index = Len(saving.postsData)
       IN  IF error = noError
           THEN /\ store' = store \cup {postData}
                /\ saving' = [saving EXCEPT !.created = @ + 1,
                                            !.index = @ + 1,
                                            !.pc = IF last THEN "returned" ELSE "creating"]
           ELSE IF alreadyExists(error.message)
           THEN /\ saving' = [saving EXCEPT !.skipped = @ + 1,
                                            !.duplicates =
                                                IF error.code = 11000 THEN @ + 1 ELSE @,
                                            !.index = @ + 1,
                                            !.pc = IF last THEN "returned" ELSE "creating"]
                /\ UNCHANGED store
           ELSE /\ saving' = [saving EXCEPT !.pc = "threw", !.error = error.message]
                /\ UNCHANGED store
    /\ UNCHANGED <<now, breaker, runs, call, pc, attempt, cutoff, recentPosts,
                   result, wakeAt, hist, breakerLog, lastRequestTime, reddit>>

\* The arguments: every sequence of up to three of the posts; the
\* collection at the call: any of the posts that can be stored
SavePosts == {PostA, PostB, PostD, PostN}

SaveInputs == UNION {[1..n -> SavePosts] : n \in 0..3}

SaveInit ==
    /\ now = 0
    /\ circuitBreakerOpen = FALSE
    /\ circuitBreakerResetTime = 0
    /\ store \in SUBSET {PostA, PostB}
    /\ runs = 0
    /\ call = idleCall
    /\ pc = [a \in Analyses |-> "idle"]
    /\ attempt = [a \in Analyses |-> 0]
    /\ cutoff = [a \in Analyses |-> 0]
    /\ recentPosts = [a \in Analyses |-> <<>>]
    /\ result = [a \in Analyses |-> <<>>]
    /\ wakeAt = [a \in Analyses |-> 0]
    /\ hist = [a \in Analyses |-> noHist]
    /\ breakerLog = [exhaustedAt |-> -1, succeededSince |-> FALSE, by |-> "none"]
    /\ lastRequestTime = 0
    /\ reddit = [c \in Callers |-> idleCaller]
    /\ \E input \in SaveInputs : saving = [idleSaving EXCEPT !.postsData = input]

SaveNext ==
    \/ createMany
    \/ \E lost \in BOOLEAN : createSettles(lost)

SaveSpec == SaveInit /\ [][SaveNext]_vars

\* -------------------------------------------------------------------------
\* The fallback analyzers called on their own
\* -------------------------------------------------------------------------
\* The record sequences they are called on: every sequence of up to MaxShort
\* documents, and two runs of equal documents of the lengths in RunLengths
\* (23 + 17 = 40, 15 + 5 = 20 and 3 + 7 = 10 documents among them).
RunLengths == {3, 5, 7, 10, 11, 15, 17, 23}

Repeat(p, n) == [i \in 1..n |-> p]

ShortInputs == UNION {[1..n -> PostKinds] : n \in 0..MaxShort}

RunInputs ==
    {Repeat(p, i) \o Repeat(q, j) :
        p \in PostKinds, q \in PostKinds, i \in RunLengths, j \in RunLengths}

FallbackInputs == ShortInputs \cup RunInputs

\* recentPosts[a] is the argument and result[a] the value returned; the
\* service is as constructed
FallbackInit ==
    /\ now = 0
    /\ circuitBreakerOpen = FALSE
    /\ circuitBreakerResetTime = 0
    /\ store = {}
    /\ runs = 0
    /\ call = idleCall
    /\ pc = [a \in Analyses |-> "idle"]
    /\ attempt = [a \in Analyses |-> 0]
    /\ cutoff = [a \in Analyses |-> 0]
    /\ \E input \in FallbackInputs : recentPosts = [a \in Analyses |-> input]
    /\ result = [a \in Analyses |-> <<>>]
    /\ wakeAt = [a \in Analyses |-> 0]
    /\ hist = [a \in Analyses |-> noHist]
    /\ breakerLog = [exhaustedAt |-> -1, succeededSince |-> FALSE, by |-> "none"]
    /\ ingestionInit

\* getFallbackTrendAnalysis(posts) / getFallbackProblemAnalysis(posts)
callFallback(a) ==
    /\ pc[a] = "idle"
    /\ pc' = [pc EXCEPT ![a] = "done"]
    /\ result' = [result EXCEPT ![a] =
                      IF a = "trend" THEN getFallbackTrendAnalysis(recentPosts[a])
                      ELSE getFallbackProblemAnalysis(recentPosts[a])]
    /\ UNCHANGED <<now, breaker, store, runs, call, attempt, cutoff, recentPosts,
                   wakeAt, hist, breakerLog>>
    /\ UNCHANGED ingestion

FallbackNext == \E a \in Analyses : callFallback(a)

FallbackSpec == FallbackInit /\ [][FallbackNext]_vars

\* -------------------------------------------------------------------------
\* getRecentPosts called on its own
\* -------------------------------------------------------------------------
\* The collections it is called on: every collection of documents around the
\* edges of the windows, and collections of findAllLimit documents and more
WindowStores ==
    (SUBSET {PostA, PostB, PostF, PostG, PostH})
        \cup {ManyPosts(findAllLimit), ManyPosts(findAllLimit + 1),
              ManyPosts(findAllLimit) \cup {PostG}}

\* the service is as constructed, at time 0
WindowInit ==
    /\ now = 0
    /\ circuitBreakerOpen = FALSE
    /\ circuitBreakerResetTime = 0
    /\ store \in WindowStores
    /\ runs = 0
    /\ call = idleCall
    /\ pc = [a \in Analyses |-> "idle"]
    /\ attempt = [a \in Analyses |-> 0]
    /\ cutoff = [a \in Analyses |-> 0]
    /\ recentPosts = [a \in Analyses |-> <<>>]
    /\ result = [a \in Analyses |-> <<>>]
    /\ wakeAt = [a \in Analyses |-> 0]
    /\ hist = [a \in Analyses |-> noHist]
    /\ breakerLog = [exhaustedAt |-> -1, succeededSince |-> FALSE, by |-> "none"]
    /\ ingestionInit

\* getRecentPosts(days), awaited by analysis a; recentPosts[a] is its value
callGetRecentPosts(a, days) ==
    /\ pc[a] = "idle"
    /\ pc' = [pc EXCEPT ![a] = "done"]
    /\ cutoff' = [cutoff EXCEPT ![a] = cutoffTimestamp(now, days)]
    /\ recentPosts' = [recentPosts EXCEPT ![a] = getRecentPosts(store, cutoff'[a])]
    /\ UNCHANGED <<now, breaker, store, runs, call, attempt, result, wakeAt, hist,
                   breakerLog>>
    /\ UNCHANGED ingestion

WindowNext == \E a \in Analyses : \E days \in DaysChoices : callGetRecentPosts(a, days)

WindowSpec == WindowInit /\ [][WindowNext]_vars

\* -------------------------------------------------------------------------
\* The records of the prompt built on their own
\* -------------------------------------------------------------------------
\* a document with a body of n characters, the digits 1, 2, ... 9, 0, 1, ...
PostLong(n) ==
    [id |-> "l", title |-> <<"n","e","w">>, subreddit |-> "saas",
     score |-> 7, num_comments |-> 1, created_utc |-> 951782400,
     selftext |-> [i \in 1..n |-> ToString(i % 10)]]

BodyLengths ==
    {trendBodyLength - 1, trendBodyLength, trendBodyLength + 1,
     problemBodyLength - 1, problemBodyLength, problemBodyLength + 1}

PayloadPosts == {PostA, PostB, PostD} \cup {PostLong(n) : n \in BodyLengths}

\* n distinct documents, the one at defaultLimit with a long body
LongWindow(n) ==
    [i \in 1..n |-> IF i = defaultLimit THEN PostLong(problemBodyLength + 1)
                    ELSE ManyPost(i)]

\* The windows: every sequence of up to two of the documents, and windows
\* of about defaultLimit documents and of findAllLimit documents
PayloadInputs ==
    UNION {[1..n -> PayloadPosts] : n \in 0..2}
        \cup {LongWindow(n) : n \in {defaultLimit - 1, defaultLimit, defaultLimit + 1,
                                     findAllLimit}}

\* recentPosts[a] is the posts argument and result[a] the value of postsData
PayloadInit ==
    /\ now = 0
    /\ circuitBreakerOpen = FALSE
    /\ circuitBreakerResetTime = 0
    /\ store = {}
    /\ runs = 0
    /\ call = idleCall
    /\ pc = [a \in Analyses |-> "idle"]
    /\ attempt = [a \in Analyses |-> 0]
    /\ cutoff = [a \in Analyses |-> 0]
    /\ \E input \in PayloadInputs : recentPosts = [a \in Analyses |-> input]
    /\ result = [a \in Analyses |-> <<>>]
    /\ wakeAt = [a \in Analyses |-> 0]
    /\ hist = [a \in Analyses |-> noHist]
    /\ breakerLog = [exhaustedAt |-> -1, succeededSince |-> FALSE, by |-> "none"]
    /\ ingestionInit

\* the statement const postsData = posts.slice(0, limit).map(...)
preparePostsData(a) ==
    /\ pc[a] = "idle"
    /\ pc' = [pc EXCEPT ![a] = "done"]
    /\ result' = [result EXCEPT ![a] = postsData(a, recentPosts[a])]
    /\ UNCHANGED <<now, breaker, store, runs, call, attempt, cutoff, recentPosts,
                   wakeAt, hist, breakerLog>>
    /\ UNCHANGED ingestion

PayloadNext == \E a \in Analyses : preparePostsData(a)

PayloadSpec == PayloadInit /\ [][PayloadNext]_vars

\* -------------------------------------------------------------------------
\* The parsing of a response text on its own
\* -------------------------------------------------------------------------
Spaces(n) == [i \in 1..n |-> NewLine]

Bodies == {"[trend]", "{}", "Sorry, I cannot"}

\* The texts: nothing, a tagged fence or a bare fence; white space; a body;
\* white space; a fence or nothing; white space
ParseTexts ==
    {open \o Spaces(i) \o <<body>> \o Spaces(j) \o close \o Spaces(k) :
        open \in {<<>>, <<FenceJson>>, <<Fence>>}, body \in Bodies,
        close \in {<<>>, <<Fence>>},
        i \in 0..MaxSpace, j \in 0..MaxSpace, k \in 0..MaxSpace}

\* hist[a].text is the text of the response; the service is as constructed
ParseInit ==
    /\ now = 0
    /\ circuitBreakerOpen = FALSE
    /\ circuitBreakerResetTime = 0
    /\ store = {}
    /\ runs = 0
    /\ call = idleCall
    /\ pc = [a \in Analyses |-> "idle"]
    /\ attempt = [a \in Analyses |-> 0]
    /\ cutoff = [a \in Analyses |-> 0]
    /\ recentPosts = [a \in Analyses |-> <<>>]
    /\ result = [a \in Analyses |-> <<>>]
    /\ wakeAt = [a \in Analyses |-> 0]
    /\ \E text \in ParseTexts : hist = [a \in Analyses |-> [noHist EXCEPT !.text = text]]
    /\ breakerLog = [exhaustedAt |-> -1, succeededSince |-> FALSE, by |-> "none"]
    /\ ingestionInit

\* JSON.parse(text.replace(...)): result[a] is the value, or hist[a].failure
\* tells that it threw
parseResponse(a) ==
    /\ pc[a] = "idle"
    /\ pc' = [pc EXCEPT ![a] = "done"]
    /\ LET trends == JSONparse(stripFence(hist[a].text))
       IN  IF trends = SyntaxError
           THEN /\ hist' = [hist EXCEPT ![a].failure = "malformed"]
                /\ UNCHANGED result
           ELSE /\ result' = [result EXCEPT ![a] = <<trends>>]
                /\ UNCHANGED hist
    /\ UNCHANGED <<now, breaker, store, runs, call, attempt, cutoff, recentPosts,
                   wakeAt, breakerLog>>
    /\ UNCHANGED ingestion

ParseNext == \E a \in Analyses : parseResponse(a)

ParseSpec == ParseInit /\ [][ParseNext]_vars

\* -------------------------------------------------------------------------
\* Properties
\* -------------------------------------------------------------------------
failures(a) == hist[a].failed

\* the step in which analysis a gets its non-empty window and checks the breaker
checksBreaker(a) ==
    /\ pc[a] = "fetching"
    /\ pc'[a] \in {"calling", "done"}
    /\ recentPosts'[a] # <<>>

\* the check step ended in the fallback, without any external call
deniedStep(a) ==
    /\ pc'[a] = "done"
    /\ hist'[a].calls = 0
    /\ result'[a] = IF a = "trend" THEN getFallbackTrendAnalysis(recentPosts'[a])
                    ELSE getFallbackProblemAnalysis(recentPosts'[a])

inCooldownOfLastExhaustion ==
    /\ breakerLog.exhaustedAt >= 0
    /\ breakerLog.exhaustedAt <= now
    /\ now < breakerLog.exhaustedAt + 300000

C2_ExhaustionOpensAndFallsBack ==
    [][\A a \in Analyses :
          (failures(a) = 2 /\ hist'[a].failed = 3) =>
              /\ circuitBreakerOpen'
              /\ circuitBreakerResetTime' = now + 300000
              /\ now' = now
              /\ pc'[a] = "done"
              /\ recentPosts'[a] = recentPosts[a]
              /\ result'[a] = IF a = "trend" THEN fallbackTrends[recentPosts[a]]
                              ELSE fallbackProblems[recentPosts[a]]]_vars

C2_Witness ==
    \E a \in Analyses :
        /\ failures(a) = 3
        /\ pc[a] = "done"
        /\ result[a] # <<>>
        /\ circuitBreakerOpen
        /\ circuitBreakerResetTime = now + 300000

\* C3: an analysis whose attempts fail k < 3 times and then succeed returns
\* the array of the successful response, has issued exactly k + 1 external
\* calls, has set the breaker to CLOSED exactly once and never to OPEN, and
\* makes no further attempt.
C3_SuccessAfterFailures ==
    \A a \in Analyses :
        hist[a].path = "success" =>
            /\ failures(a) < 3
            /\ hist[a].calls = failures(a) + 1
            /\ attempt[a] = hist[a].calls
            /\ hist[a].closes = 1
            /\ hist[a].opens = 0
            /\ pc[a] = "done"
            /\ result[a] = arrayOrEmpty(JSONparse(stripFence(hist[a].text)))

C3_Witness ==
    \E a \in Analyses :
        /\ hist[a].path = "success"
        /\ failures(a) = 2
        /\ hist[a].calls = 3
        /\ result[a] # <<>>

\* C4 (as stated): once a call has succeeded with a text that cannot be
\* decoded, the analysis has returned the empty sequence, without another
\* attempt and without opening the breaker.
C4_MalformedReturnsEmpty ==
    \A a \in Analyses :
        hist[a].failure = "malformed" =>
            /\ pc[a] = "done"
            /\ result[a] = <<>>
            /\ hist[a].calls = 1
            /\ hist[a].opens = 0

\* C5 (as stated): generateReport fails only when a record-window fetch failed.
C5_FailsOnlyOnProviderFailure ==
    call.status = "threw" => \E a \in Analyses : pc[a] = "failed"

\* C6: under total outage, once both windows are fetched generateReport
\* eventually returns, and the report it returns is the rendering of the two
\* fallback analyzers' outputs on the fetched records.
C6_OutageYieldsFallbackReport ==
    /\ [](call.status = "returned" =>
            call.report = reportText(call.days,
                                     getFallbackTrendAnalysis(recentPosts["trend"]),
                                     getFallbackProblemAnalysis(recentPosts["problem"])))
    /\ [](call.status = "threw" => \E a \in Analyses : pc[a] = "failed")
    /\ ((call.status = "pending" /\ \A a \in Analyses : pc[a] \in {"calling", "waiting", "done"})
            ~> (call.status = "returned"))

C6_Witness ==
    /\ call.status = "returned"
    /\ \A a \in Analyses : hist[a].path = "exhausted" /\ recentPosts[a] # <<>>
    /\ Len(call.report) > 3

\* C7 (as stated): two overlapping analyses never both observe the breaker
\* CLOSED, both run their attempts and both reach exhaustion.
C7_NoDoubleExhaustion ==
    ~ \E a, b \in Analyses :
        /\ a # b
        /\ b \in hist[a].peers
        /\ hist[a].observed = "CLOSED" /\ hist[b].observed = "CLOSED"
        /\ hist[a].path = "exhausted" /\ hist[b].path = "exhausted"
        /\ hist[a].opens > 0 /\ hist[b].opens > 0

\* C8 (as stated): the trend analysis and the problem analysis of one
\* generateReport work on the same record sequence.
C8_SameWindow ==
    (\A a \in Analyses : pc[a] \in {"calling", "waiting", "done"}) =>
        recentPosts["trend"] = recentPosts["problem"]

TrendInsightOk(e) ==
    /\ {"confidence", "competitionLevel", "entryCost"} \subseteq DOMAIN e
    /\ e.confidence \in 0..100
    /\ e.competitionLevel \in {"Low", "Medium", "High"}
    /\ e.entryCost \in {"Low", "Medium", "High"}

ProblemInsightOk(e) ==
    /\ {"frequency", "severity", "urgency", "marketSize", "potentialSolutions"}
           \subseteq DOMAIN e
    /\ e.frequency >= 0
    /\ e.severity \in {"Low", "Medium", "High"}
    /\ e.urgency \in {"Low", "Medium", "High"}
    /\ e.marketSize \in {"Small", "Medium", "Large"}
    /\ e.potentialSolutions # <<>>

\* C9 (as stated): every returned insight collection satisfies the field
\* constraints of the data model, whichever path produced it.
C9_ReturnedInsightsWellFormed ==
    \A a \in Analyses :
        pc[a] = "done" =>
            \A k \in DOMAIN result[a] :
                IF a = "trend" THEN TrendInsightOk(result[a][k])
                ELSE ProblemInsightOk(result[a][k])

\* C10: the breaker starts CLOSED; the passing of time alone never changes
\* the stored breaker state; and an analysis that checks the breaker when it
\* is CLOSED, or OPEN with the reset time reached, issues the external call.
C10_LazyReset ==
    /\ ~circuitBreakerOpen
    /\ [][/\ now' # now => UNCHANGED breaker
          /\ \A a \in Analyses :
                (/\ checksBreaker(a)
                 /\ (~circuitBreakerOpen \/ now >= circuitBreakerResetTime)) =>
                    /\ pc'[a] = "calling"
                    /\ attempt'[a] = 1
                    /\ hist'[a].calls = 1]_vars

C10_Witness ==
    \E a \in Analyses :
        /\ hist[a].observed = "EXPIRED"
        /\ pc[a] = "calling"
        /\ circuitBreakerOpen
        /\ now >= circuitBreakerResetTime

\* the step in which an attempt of analysis a succeeds
succeedsStep(a) == hist'[a].closes = hist[a].closes + 1

\* the step in which the last attempt of analysis a fails
exhaustsStep(a) == hist[a].path # "exhausted" /\ hist'[a].path = "exhausted"

\* C11: the breaker check never writes the breaker, and the breaker is
\* written only when an outcome is known: by a successful attempt (then
\* CLOSED, reset time kept) or by an exhaustion (then OPEN, reset time =
\* now + 5 minutes).  In particular a half-open trial (OPEN, reset time
\* reached) leaves OPEN and the reset time as they are while its attempts
\* fail and wait.
C11_CheckLeavesBreaker ==
    [][/\ \A a \in Analyses : checksBreaker(a) => UNCHANGED breaker
       /\ breaker' # breaker =>
              \E a \in Analyses :
                  \/ /\ succeedsStep(a)
                     /\ ~circuitBreakerOpen'
                     /\ circuitBreakerResetTime' = circuitBreakerResetTime
                  \/ /\ exhaustsStep(a)
                     /\ circuitBreakerOpen'
                     /\ circuitBreakerResetTime' = now + 300000
       /\ \A a \in Analyses :
              (/\ hist[a].observed = "EXPIRED"
               /\ pc'[a] # pc[a]
               /\ pc'[a] \in {"calling", "waiting"}) => UNCHANGED breaker]_vars

C11_Witness ==
    \E a \in Analyses :
        /\ hist[a].observed = "EXPIRED"
        /\ pc[a] = "waiting"
        /\ hist[a].failed = 2
        /\ circuitBreakerOpen
        /\ circuitBreakerResetTime <= now

\* C12: a successful attempt sets the breaker to CLOSED whatever it was and
\* keeps the stored reset time; an analysis that checks the breaker after a
\* success, with no exhaustion in between, issues the external call, also
\* while the stored reset time is still ahead.
C12_SuccessCloses ==
    [][/\ \A a \in Analyses :
              succeedsStep(a) =>
                  /\ ~circuitBreakerOpen'
                  /\ circuitBreakerResetTime' = circuitBreakerResetTime
       /\ \A a \in Analyses :
              (checksBreaker(a) /\ breakerLog.succeededSince) =>
                  /\ pc'[a] = "calling"
                  /\ attempt'[a] = 1
                  /\ hist'[a].calls = 1]_vars

C12_Witness ==
    \E a \in Analyses :
        /\ pc[a] = "calling"
        /\ attempt[a] = 1
        /\ hist[a].observed = "CLOSED"
        /\ breakerLog.succeededSince
        /\ breakerLog.exhaustedAt >= 0
        /\ now < circuitBreakerResetTime

C14_AtMostThreeCalls ==
    /\ [](\A a \in Analyses :
            /\ attempt[a] \in 0..3
            /\ hist[a].calls = attempt[a]
            /\ hist[a].failed <= attempt[a]
            /\ hist[a].path \in {"denied", "empty"} => hist[a].calls = 0)
    /\ [][\A a \in Analyses :
            \/ hist'[a].calls = hist[a].calls
            \/ hist'[a].calls = 0
            \/ /\ hist'[a].calls = hist[a].calls + 1
               /\ attempt'[a] = attempt[a] + 1
               /\ pc'[a] = "calling"]_vars

C14_Witness ==
    \E a \in Analyses :
        /\ attempt[a] = 3
        /\ hist[a].calls = 3
        /\ pc[a] = "calling"

\* the step in which an attempt of analysis a fails
failsStep(a) == hist'[a].failed = hist[a].failed + 1

\* C15: when attempt k < 3 of an analysis fails, the analysis waits with a
\* timer set to 2000 * k ms from the failure and issues no call before the
\* timer is due; attempt k + 1 starts only from that wait, at or after the
\* deadline; when attempt 3 fails the analysis returns in the same step,
\* without a timer.
C15_LinearBackoff ==
    [][\A a \in Analyses :
          /\ (failsStep(a) /\ attempt[a] < 3) =>
                 /\ pc'[a] = "waiting"
                 /\ wakeAt'[a] = now + 2000 * attempt[a]
                 /\ hist'[a].calls = hist[a].calls
          /\ (failsStep(a) /\ attempt[a] = 3) =>
                 /\ pc'[a] = "done"
                 /\ hist'[a].path = "exhausted"
                 /\ now' = now
                 /\ wakeAt'[a] = wakeAt[a]
          /\ (pc[a] = "waiting" /\ now < wakeAt[a]) =>
                 /\ pc'[a] = "waiting"
                 /\ hist'[a].calls = hist[a].calls
          /\ (attempt[a] >= 1 /\ attempt'[a] = attempt[a] + 1) =>
                 /\ pc[a] = "waiting"
                 /\ now >= wakeAt[a]]_vars

C15_Witness ==
    \E a \in Analyses :
        /\ pc[a] = "waiting"
        /\ attempt[a] = 2
        /\ hist[a].failed = 2
        /\ wakeAt[a] = now + 4000

\* the step in which the findAll of analysis a resolves with an empty window
emptyWindowStep(a) ==
    /\ pc[a] = "fetching"
    /\ pc'[a] \notin {"fetching", "failed"}
    /\ recentPosts'[a] = <<>>

\* C16: an analysis whose window is empty returns the empty sequence in the
\* step in which it gets the window: no external call, no fallback, breaker
\* untouched; and when both windows of a generateReport are empty, the
\* invocation has returned the report made of the header, the sentence for
\* nothing found and the footer.
C16_EmptyWindowSkips ==
    /\ [][\A a \in Analyses :
            emptyWindowStep(a) =>
                /\ pc'[a] = "done"
                /\ result'[a] = <<>>
                /\ attempt'[a] = 0
                /\ hist'[a].calls = 0
                /\ hist'[a].path = "empty"
                /\ UNCHANGED breaker]_vars
    /\ []((\A a \in Analyses : hist[a].path = "empty") =>
            /\ call.status = "returned"
            /\ call.report =
                   << <<"=== TREND ANALYSIS REPORT (", call.days, " days) ===">>,
                      <<"No significant trends or problems identified in the current data.">>,
                      <<"=== END OF REPORT ===">> >>)

C16_Witness ==
    /\ call.status = "returned"
    /\ \A a \in Analyses : hist[a].path = "empty" /\ recentPosts[a] = <<>>
    /\ Len(call.report) = 3

\* C17 (as stated): when the fetch of the record window of a generateReport
\* fails and the failure has reached the caller, that invocation has issued
\* and issues no external call, has run no fallback analyzer, and has not
\* written the breaker.
C17_FetchFailureIsQuiet ==
    (call.status = "threw" /\ call.error = "ProviderFailure") =>
        \A a \in Analyses :
            /\ hist[a].calls = 0
            /\ hist[a].path \notin {"denied", "exhausted"}
            /\ hist[a].opens = 0
            /\ hist[a].closes = 0

\* the step in which generateReport returns its report
returnsStep == call.status = "pending" /\ call'.status = "returned"

\* C18: generateReport returns only in the step in which the second of its
\* two analyses completes, whichever that is; the report is synthesized from
\* the two results, and the header of the trends block, with all trend lines,
\* stands before the header of the problems block.
C18_JoinBeforeSynthesis ==
    /\ [][returnsStep =>
            \E a \in Analyses :
                /\ pc[a] # "done" /\ pc'[a] = "done"
                /\ \A b \in Analyses \ {a} : pc[b] = "done" /\ pc'[b] = "done"]_vars
    /\ [](call.status = "returned" =>
            /\ \A a \in Analyses : pc[a] = "done"
            /\ call.report = reportText(call.days, result["trend"], result["problem"])
            /\ \A i, j \in DOMAIN call.report :
                   (/\ call.report[i] = <<"EMERGING TRENDS:">>
                    /\ call.report[j] = <<"IDENTIFIED PROBLEMS:">>)
                       => i + 5 * Len(result["trend"]) < j
            /\ Len(result["trend"]) > 0 =>
                   call.report[2] = <<"EMERGING TRENDS:">>
            /\ Len(result["problem"]) > 0 =>
                   call.report[Len(call.report) - 4 * Len(result["problem"]) - 1]
                       = <<"IDENTIFIED PROBLEMS:">>)

\* the problem analysis completed first (the trend analysis wrote the breaker
\* last), and the report has both blocks
C18_Witness ==
    /\ call.status = "returned"
    /\ \A a \in Analyses : hist[a].path = "success" /\ Len(result[a]) > 0
    /\ breakerLog.by = "trend"

inRetrySequence(a) == pc[a] \in {"calling", "waiting"}

ranToCompletion(a) == pc[a] = "done" /\ hist[a].path \in {"success", "exhausted"}

\* C19: an analysis that awaits its fetch gets an outcome; an analysis in its
\* retry sequence reaches success or exhaustion and returns, with at most 3
\* attempts, also when the sibling analysis has failed; no step takes an
\* analysis out of its retry sequence in any other way.
C19_Terminates ==
    /\ [](\A a \in Analyses : attempt[a] <= 3 /\ hist[a].calls <= 3)
    /\ [][\A a \in Analyses :
            inRetrySequence(a) =>
                \/ pc'[a] \in {"calling", "waiting"}
                \/ pc'[a] = "done" /\ hist'[a].path \in {"success", "exhausted"}]_vars
    /\ \A a \in Analyses : (pc[a] = "fetching") ~> (pc[a] \in {"done", "failed"})
    /\ \A a \in Analyses : inRetrySequence(a) ~> ranToCompletion(a)
    /\ \A a \in Analyses :
          (inRetrySequence(a) /\ \E b \in Analyses : pc[b] = "failed")
              ~> (ranToCompletion(a) /\ call.status = "threw")

\* the generateReport has thrown for the failed fetch of one analysis, and
\* the other analysis has run through its three attempts all the same
C19_Witness ==
    \E a, b \in Analyses :
        /\ pc[b] = "failed"
        /\ call.status = "threw"
        /\ ranToCompletion(a)
        /\ hist[a].path = "exhausted"
        /\ hist[a].calls = 3

\* the answer of the successful call of analysis a decoded to a value that
\* is no array
nonArrayTexts ==
    {text \in UNION {ResponseTexts(a) : a \in Analyses} :
        /\ JSONparse(stripFence(text)) # SyntaxError
        /\ JSONparse(stripFence(text)).type # "array"}

decodedNonArray(a) == hist[a].path = "success" /\ hist[a].text \in nonArrayTexts

\* C20: an analysis whose call answered with valid JSON that is no array has
\* returned the empty sequence after that call, its last, without a failed
\* attempt for it and without the fallback analyzer; and the step in which
\* such an answer arrives leaves the breaker closed.
C20_NonArrayIsEmptySuccess ==
    /\ [](\A a \in Analyses :
            decodedNonArray(a) =>
                /\ pc[a] = "done"
                /\ result[a] = <<>>
                /\ hist[a].closes = 1
                /\ hist[a].calls = hist[a].failed + 1
                /\ hist[a].calls = attempt[a])
    /\ [][\A a \in Analyses :
            (/\ hist[a].path # "success"
             /\ hist'[a].path = "success"
             /\ hist'[a].text \in nonArrayTexts) =>
                /\ pc[a] = "calling"
                /\ ~circuitBreakerOpen'
                /\ circuitBreakerResetTime' = circuitBreakerResetTime
                /\ attempt'[a] = attempt[a]
                /\ hist'[a].failed = hist[a].failed
                /\ hist'[a].opens = hist[a].opens]_vars

\* an object was answered: empty result although the fallback analyzer has
\* insights for the window, breaker closed by this analysis
C20_Witness ==
    \E a \in Analyses :
        /\ decodedNonArray(a)
        /\ hist[a].text = <<"{}">>
        /\ result[a] = <<>>
        /\ fallbackOf(a, recentPosts[a]) # <<>>
        /\ ~circuitBreakerOpen
        /\ breakerLog.by = a

\* the argument and the value of the call of the fallback trend analyzer
trendInput == recentPosts["trend"]

trendOutput == result["trend"]

labelsOf(posts) == {posts[i].subreddit : i \in DOMAIN posts}

\* the nearest integer to num / den, a half going up, in exact arithmetic
roundedRatio(num, den) == (2 * num + den) \div (2 * den)

\* the insight for the group of label l in posts, but for its marketAnalysis
isTopGroupInsight(insight, posts, l) ==
    /\ insight.trend = <<"Growing activity in ", l, " community">>
    /\ insight.recommendation = <<"Consider building tools for ", l, " community needs">>
    /\ \A m \in labelsOf(posts) : subredditCount(posts, m) <= subredditCount(posts, l)
    /\ insight.growthPercentage = roundedRatio(100 * subredditCount(posts, l), Len(posts))
    /\ insight.confidence = 60
    /\ insight.competitionLevel = "Medium"
    /\ insight.entryCost = "Low"
    /\ insight.timePeriod = <<"30 days">>

\* C21 (as stated): on a non-empty record sequence the first insight of the
\* fallback trend analyzer is the one for a group with the most records,
\* with growthPercentage the rounded percentage of that group.
C21_TopGroupInsight ==
    (pc["trend"] = "done" /\ trendInput # <<>>) =>
        /\ Len(trendOutput) >= 1
        /\ \E l \in labelsOf(trendInput) : isTopGroupInsight(trendOutput[1], trendInput, l)

isHighEngagementInsight(insight) == insight.trend = <<"High-engagement content trend">>

\* C22: the fallback trend analyzer returns at most 2 insights; the
\* high-engagement insight is among them iff the mean score is above 100,
\* and then it is the second, after the top-group insight, with
\* growthPercentage the rounded tenth of the mean score, confidence 70,
\* competitionLevel High and entryCost Medium.
C22_HighEngagementInsight ==
    pc["trend"] = "done" =>
        LET n == Len(trendInput)
            sum == SumBy(trendInput, "score")
        IN  /\ Len(trendOutput) <= 2
            /\ (\E i \in DOMAIN trendOutput : isHighEngagementInsight(trendOutput[i]))
                   <=> (n > 0 /\ sum > 100 * n)
            /\ \A i \in DOMAIN trendOutput :
                   isHighEngagementInsight(trendOutput[i]) =>
                       /\ i = 2
                       /\ ~isHighEngagementInsight(trendOutput[1])
                       /\ trendOutput[1].confidence = 60
                       /\ trendOutput[i].growthPercentage = roundedRatio(sum, 10 * n)
                       /\ trendOutput[i].confidence = 70
                       /\ trendOutput[i].competitionLevel = "High"
                       /\ trendOutput[i].entryCost = "Medium"

\* a mean score of 151: the second insight has growthPercentage 15
C22_Witness ==
    /\ pc["trend"] = "done"
    /\ SumBy(trendInput, "score") = 151 * Len(trendInput)
    /\ Len(trendOutput) = 2
    /\ isHighEngagementInsight(trendOutput[2])
    /\ trendOutput[2].growthPercentage = 15

\* the position at which label l is first met in posts
firstIndexOf(posts, l) ==
    CHOOSE i \in DOMAIN posts :
        posts[i].subreddit = l /\ \A j \in 1..(i - 1) : posts[j].subreddit # l

\* l has the highest count and, among the labels with that count, is met first
isFirstSeenTop(posts, l) ==
    \A m \in labelsOf(posts) :
        \/ subredditCount(posts, m) < subredditCount(posts, l)
        \/ /\ subredditCount(posts, m) = subredditCount(posts, l)
           /\ firstIndexOf(posts, l) <= firstIndexOf(posts, m)

\* C23 (as stated): the group of the first insight is the one with the
\* highest count and, among equal counts, the one whose label is met first in
\* the record sequence, whatever the labels are.
C23_TieGoesToFirstSeen ==
    (pc["trend"] = "done" /\ trendInput # <<>>) =>
        \E l \in labelsOf(trendInput) :
            /\ trendOutput[1].trend = <<"Growing activity in ", l, " community">>
            /\ isFirstSeenTop(trendInput, l)

tookFallback(a) == hist[a].path \in {"denied", "exhausted"}

problemInput == recentPosts["problem"]

problemOutput == result["problem"]

isKeywordInsight(insight) == insight.problem = <<"User-reported issues and difficulties">>

\* the documents of the model with a keyword: PostA has Help in its title,
\* PostC has FIX in its body
hasKeyword(post) == post.id \in {"a", "c"}

keywordCount(posts) == Cardinality({i \in DOMAIN posts : hasKeyword(posts[i])})

\* C25: the fallback problem analyzer returns the keyword insight iff a
\* record has a keyword in its title or body, in whatever case; it is then
\* the first insight, with frequency the number of such records, severity
\* High above 10 of them and Medium up to 10, marketSize Large, urgency High
\* and the three fixed solutions.
C25_KeywordInsight ==
    pc["problem"] = "done" =>
        /\ (\E i \in DOMAIN problemOutput : isKeywordInsight(problemOutput[i]))
               <=> keywordCount(problemInput) > 0
        /\ \A i \in DOMAIN problemOutput :
               isKeywordInsight(problemOutput[i]) =>
                   /\ i = 1
                   /\ problemOutput[i].frequency = keywordCount(problemInput)
                   /\ problemOutput[i].severity =
                          IF keywordCount(problemInput) > 10 THEN "High" ELSE "Medium"
                   /\ problemOutput[i].marketSize = "Large"
                   /\ problemOutput[i].urgency = "High"
                   /\ problemOutput[i].potentialSolutions =
                          <<"User support tools", "Automated troubleshooting",
                            "Community forums">>

\* 15 of 20 records have a keyword: frequency 15, severity High
C25_Witness ==
    /\ pc["problem"] = "done"
    /\ Len(problemInput) = 20
    /\ keywordCount(problemInput) = 15
    /\ isKeywordInsight(problemOutput[1])
    /\ problemOutput[1].frequency = 15
    /\ problemOutput[1].severity = "High"

isLowEngagementInsight(insight) == insight.problem = <<"Low engagement content">>

lowEngagementCount(posts) ==
    Cardinality({i \in DOMAIN posts : posts[i].score < 5 /\ posts[i].num_comments < 3})

\* C26: the fallback problem analyzer returns the low-engagement insight iff
\* the records with score below 5 and fewer than 3 comments are more than
\* three tenths of all records; its frequency is the number of those
\* records, and its severity, marketSize and urgency are Medium.
C26_LowEngagementInsight ==
    pc["problem"] = "done" =>
        /\ (\E i \in DOMAIN problemOutput : isLowEngagementInsight(problemOutput[i]))
               <=> 10 * lowEngagementCount(problemInput) > 3 * Len(problemInput)
        /\ \A i \in DOMAIN problemOutput :
               isLowEngagementInsight(problemOutput[i]) =>
                   /\ problemOutput[i].frequency = lowEngagementCount(problemInput)
                   /\ problemOutput[i].severity = "Medium"
                   /\ problemOutput[i].marketSize = "Medium"
                   /\ problemOutput[i].urgency = "Medium"

\* 5 of 15 records are of low engagement, one more than three tenths allow
C26_Witness ==
    /\ pc["problem"] = "done"
    /\ Len(problemInput) = 15
    /\ lowEngagementCount(problemInput) = 5
    /\ \E i \in DOMAIN problemOutput :
          isLowEngagementInsight(problemOutput[i]) /\ problemOutput[i].frequency = 5

keywordDue(posts) == keywordCount(posts) > 0

lowEngagementDue(posts) == 10 * lowEngagementCount(posts) > 3 * Len(posts)

\* C27: the value of the fallback problem analyzer is the keyword insight,
\* if a keyword is found, followed by the low-engagement insight, if the
\* low-engagement records are above three tenths: each is there or not
\* whatever the other check found, and the keyword insight is the first of
\* the two.
C27_ChecksAreIndependent ==
    pc["problem"] = "done" =>
        /\ Len(problemOutput) =
               (IF keywordDue(problemInput) THEN 1 ELSE 0)
               + (IF lowEngagementDue(problemInput) THEN 1 ELSE 0)
        /\ keywordDue(problemInput) => isKeywordInsight(problemOutput[1])
        /\ lowEngagementDue(problemInput) =>
               isLowEngagementInsight(problemOutput[Len(problemOutput)])

\* both checks fire: the keyword insight, then the low-engagement insight
C27_Witness ==
    /\ pc["problem"] = "done"
    /\ keywordDue(problemInput)
    /\ lowEngagementDue(problemInput)
    /\ Len(problemOutput) = 2
    /\ isKeywordInsight(problemOutput[1])
    /\ isLowEngagementInsight(problemOutput[2])

trendsHeader == <<"EMERGING TRENDS:">>

problemsHeader == <<"IDENTIFIED PROBLEMS:">>

nothingFound == <<"No significant trends or problems identified in the current data.">>

\* C28: a report that generateReport returns starts with the header naming
\* the days and ends with the footer; it has the trends block iff there are
\* trends and the problems block iff there are problems, the items of each
\* numbered from 1 in the order of the results; it has the sentence for
\* nothing found iff there are neither, and is then these three lines.
C28_ReportLayout ==
    call.status = "returned" =>
        LET r == call.report
            nt == Len(result["trend"])
            np == Len(result["problem"])
            tb == IF nt > 0 THEN 1 + 5 * nt ELSE 0
            pb == IF np > 0 THEN 1 + 4 * np ELSE 0
        IN  /\ r[1] = <<"=== TREND ANALYSIS REPORT (", call.days, " days) ===">>
            /\ r[Len(r)] = <<"=== END OF REPORT ===">>
            /\ Len(r) = 2 + tb + pb + (IF nt = 0 /\ np = 0 THEN 1 ELSE 0)
            /\ (\E i \in DOMAIN r : r[i] = trendsHeader) <=> nt > 0
            /\ (\E i \in DOMAIN r : r[i] = problemsHeader) <=> np > 0
            /\ (\E i \in DOMAIN r : r[i] = nothingFound) <=> (nt = 0 /\ np = 0)
            /\ nt > 0 =>
                   /\ r[2] = trendsHeader
                   /\ \A k \in 1..nt :
                          /\ r[2 + 5 * (k - 1) + 1][1] = k
                          /\ r[2 + 5 * (k - 1) + 1][2] = ". "
                          /\ r[2 + 5 * (k - 1) + 1][3] = Field(result["trend"][k], "trend")
            /\ np > 0 =>
                   /\ r[2 + tb] = problemsHeader
                   /\ \A k \in 1..np :
                          /\ r[2 + tb + 4 * (k - 1) + 1][1] = k
                          /\ r[2 + tb + 4 * (k - 1) + 1][2] = ". "
                          /\ r[2 + tb + 4 * (k - 1) + 1][3]
                                 = Field(result["problem"][k], "problem")
            /\ (nt = 0 /\ np = 0) => r[2] = nothingFound

\* a report with two trends and two problems
C28_Witness ==
    /\ call.status = "returned"
    /\ Len(result["trend"]) = 2
    /\ Len(result["problem"]) = 2
    /\ Len(call.report) = 22
    /\ call.report[8][1] = 2
    /\ call.report[18][1] = 2

atOrAfter(S, c) == {p \in S : p.created_utc >= c}

\* C29: the window that getRecentPosts returns for days is exactly the set of
\* the stored documents created at or after the cutoff, now minus days days:
\* none older, and none of those left out, however many documents are stored.
C29_WindowIsExact ==
    \A a \in Analyses :
        pc[a] = "done" =>
            /\ \E days \in DaysChoices : cutoff[a] = (now \div 1000) - days * DaySeconds
            /\ Range(recentPosts[a]) = atOrAfter(store, cutoff[a])

\* the half of C29 that holds: no document of the window is older than the
\* cutoff or is not stored
C29_NoneOlder ==
    \A a \in Analyses :
        pc[a] = "done" => Range(recentPosts[a]) \subseteq atOrAfter(store, cutoff[a])

\* C29 holds of a collection of at most findAllLimit documents
C29_ExactUpToLimit ==
    \A a \in Analyses :
        (pc[a] = "done" /\ Cardinality(store) <= findAllLimit) =>
            Range(recentPosts[a]) = atOrAfter(store, cutoff[a])

\* the first n characters of a body, or all of it if it is shorter; no
\* characters of no body
cutBody(body, n) ==
    IF body = Undefined THEN <<>>
    ELSE [j \in 1..(IF Len(body) < n THEN Len(body) ELSE n) |-> body[j]]

payloadOf(a) ==
    LET window == recentPosts[a]
        sent == result[a]
        most == IF a = "trend" THEN 200 ELSE 300
    IN  /\ Len(sent) <= 500
        /\ Len(sent) = (IF Len(window) < 500 THEN Len(window) ELSE 500)
        /\ \A i \in 1..Len(sent) :
               /\ sent[i].title = window[i].title
               /\ sent[i].subreddit = window[i].subreddit
               /\ sent[i].score = window[i].score
               /\ sent[i].comments = window[i].num_comments
               /\ Len(sent[i].selftext) <= most
               /\ sent[i].selftext = cutBody(window[i].selftext, most)

\* C30: the records of a prompt are the first min(500, n) records of the
\* window in the order of the window, the body of each cut to its first 200
\* characters (trends) or 300 characters (problems) and empty if the record
\* has no body; building them leaves the window as it was.
C30_PayloadIsBounded ==
    /\ [](\A a \in Analyses : pc[a] = "done" => payloadOf(a))
    /\ [][recentPosts' = recentPosts]_vars

\* a window of 501 records of which the 500th has a body of 301 characters
C30_Witness ==
    /\ pc["trend"] = "done" /\ pc["problem"] = "done"
    /\ Len(recentPosts["trend"]) = 501
    /\ Len(result["trend"]) = 500 /\ Len(result["problem"]) = 500
    /\ Len(recentPosts["trend"][500].selftext) = 301
    /\ Len(result["trend"][500].selftext) = 200
    /\ Len(result["problem"][500].selftext) = 300

\* text without the white space at its end
withoutTrailingSpace(text) ==
    LET n == IF \E i \in DOMAIN text : text[i] # NewLine
             THEN CHOOSE i \in DOMAIN text :
                      text[i] # NewLine /\ \A j \in (i + 1)..Len(text) : text[j] = NewLine
             ELSE 0
    IN  SubSeq(text, 1, n)

\* what is between the tagged fence at the start of text and the fence that
\* only white space follows
between(text) == SubSeq(text, 2, Len(withoutTrailingSpace(text)) - 1)

\* text is a tagged fence, a body with white space around it and a fence,
\* with or without white space after it
isFenced(text) ==
    /\ Len(withoutTrailingSpace(text)) >= 3
    /\ Head(text) = FenceJson
    /\ Last(withoutTrailingSpace(text)) = Fence
    /\ \E i \in DOMAIN between(text) :
           /\ between(text)[i] \in Bodies
           /\ \A j \in DOMAIN between(text) : j # i => between(text)[j] = NewLine

bodyOfText(text) == CHOOSE b \in Bodies : \E i \in DOMAIN between(text) : between(text)[i] = b

hasNoFence(text) == \A i \in DOMAIN text : text[i] \notin {FenceJson, Fence}

\* what the parsing step makes of a text that is handed to JSON.parse as it is
decodedAs(a, jsonString) ==
    IF JSONparse(jsonString) = SyntaxError
    THEN hist[a].failure = "malformed" /\ result[a] = <<>>
    ELSE hist[a].failure = "none" /\ result[a] = <<JSONparse(jsonString)>>

\* C31: of a text that is a tagged fence, a body and a fence, with or without
\* white space after the fence, the parsing step decodes the body; a text
\* without fences it decodes as it is.
C31_DecodesTheBody ==
    \A a \in Analyses :
        pc[a] = "done" =>
            /\ isFenced(hist[a].text) => decodedAs(a, <<bodyOfText(hist[a].text)>>)
            /\ hasNoFence(hist[a].text) => decodedAs(a, hist[a].text)

\* C31 holds of the texts that end with the fence
C31_DecodesWhenFenceIsLast ==
    \A a \in Analyses :
        pc[a] = "done" =>
            /\ (isFenced(hist[a].text) /\ Last(hist[a].text) = Fence)
                   => decodedAs(a, <<bodyOfText(hist[a].text)>>)
            /\ hasNoFence(hist[a].text) => decodedAs(a, hist[a].text)

\* of a fenced text with white space after the fence, JSON.parse throws
C31_ThrowsWhenSpaceIsLast ==
    \A a \in Analyses :
        (pc[a] = "done" /\ isFenced(hist[a].text) /\ Last(hist[a].text) = NewLine)
            => hist[a].failure = "malformed"

\* C32: the failure of attempt 1 or 2 of an analysis leaves the breaker flag
\* and the reset time as they were, and the analysis goes on to wait; a step
\* in which an attempt fails changes the breaker only if the attempt is the
\* third.
C32_OnlyFinalFailureEscalates ==
    [][/\ \A a \in Analyses :
             (failsStep(a) /\ attempt[a] \in {1, 2}) =>
                 /\ circuitBreakerOpen' = circuitBreakerOpen
                 /\ circuitBreakerResetTime' = circuitBreakerResetTime
                 /\ pc'[a] = "waiting"
       /\ ((\E a \in Analyses : failsStep(a))
              /\ <<circuitBreakerOpen, circuitBreakerResetTime>>'
                     # <<circuitBreakerOpen, circuitBreakerResetTime>>)
             => \E a \in Analyses : failsStep(a) /\ attempt[a] = 3]_vars

\* two attempts have failed and the breaker is as constructed
C32_Witness ==
    \E a \in Analyses :
        /\ pc[a] = "waiting"
        /\ attempt[a] = 2
        /\ failures(a) = 2
        /\ ~circuitBreakerOpen
        /\ circuitBreakerResetTime = 0

\* C33: called on no records, the fallback trend analyzer returns no
\* insights and the fallback problem analyzer returns no problems; neither
\* throws.
C33_EmptyInEmptyOut ==
    \A a \in Analyses :
        (pc[a] = "done" /\ recentPosts[a] = <<>>) => result[a] = <<>>

\* both analyzers have returned from a call on no records
C33_Witness ==
    /\ \A a \in Analyses : pc[a] = "done" /\ Len(recentPosts[a]) = 0
    /\ getFallbackTrendAnalysis(<<>>) = <<>>
    /\ getFallbackProblemAnalysis(<<>>) = <<>>

\* the step in which the breaker check denies the call of analysis a
breakerDeniesStep(a) == pc[a] = "fetching" /\ hist'[a].path = "denied"

\* C34: the step in which an analysis is denied by the breaker (flag set,
\* now before the reset time) leaves the flag and the reset time as they
\* were, issues no call and returns the fallback output; so the reset time
\* is the same after any number of denied calls.
C34_DenialLeavesBreaker ==
    [][\A a \in Analyses :
          breakerDeniesStep(a) =>
              /\ circuitBreakerOpen /\ now < circuitBreakerResetTime
              /\ circuitBreakerOpen' = circuitBreakerOpen
              /\ circuitBreakerResetTime' = circuitBreakerResetTime
              /\ hist'[a].calls = 0
              /\ pc'[a] = "done"
              /\ result'[a] = fallbackOf(a, recentPosts'[a])]_vars

\* both analyses of a run have been denied some time after the breaker was
\* opened, and the reset time is still the one set when it was opened
C34_Witness ==
    /\ \A a \in Analyses : hist[a].path = "denied" /\ pc[a] = "done"
    /\ circuitBreakerOpen
    /\ breakerLog.exhaustedAt >= 0
    /\ now > breakerLog.exhaustedAt
    /\ circuitBreakerResetTime = breakerLog.exhaustedAt + circuitBreakerTimeout
    /\ now < circuitBreakerResetTime

hasPassed(c) == reddit[c].pc \in {"requesting", "done"}

\* C35: any two callers that have left ensureRateLimit for their request
\* have left it at least 1000 ms apart, however their calls interleave.
C35_RequestsAreSpaced ==
    \A c, d \in Callers :
        (c # d /\ hasPassed(c) /\ hasPassed(d)) =>
            \/ reddit[c].passedAt - reddit[d].passedAt >= 1000
            \/ reddit[d].passedAt - reddit[c].passedAt >= 1000

\* what holds instead: a caller leaves ensureRateLimit at least 1000 ms after
\* the value of lastRequestTime that it read on entering
C35_SpacedFromTheOneBefore ==
    [][\A c \in Callers :
          /\ (reddit[c].pc = "idle" /\ reddit'[c].pc = "requesting")
                 => now - lastRequestTime >= 1000
          /\ (reddit[c].pc = "idle" /\ reddit'[c].pc = "limited")
                 => reddit'[c].wakeAt = lastRequestTime + 1000
          /\ (reddit[c].pc = "limited" /\ reddit'[c].pc = "requesting")
                 => now >= reddit[c].wakeAt]_vars

\* C36: searchAllPosts / getAllSubredditPosts returns at most maxResults
\* posts and has issued at most ceil(maxResults / 100) requests, whatever the
\* sizes of the batches and wherever the cursor ends.
C36_AtMostMaxResults ==
    \A c \in Callers :
        reddit[c].pc = "returned" =>
            /\ Len(reddit[c].allPosts) <= reddit[c].maxResults
            /\ reddit[c].totalRequests <= (reddit[c].maxResults + 99) \div 100

\* what holds of the requests: never more than ceil(maxResults / 100)
C36_RequestsBounded ==
    \A c \in Callers :
        reddit[c].maxRequests > 0 =>
            reddit[c].totalRequests <= (reddit[c].maxResults + 99) \div 100

\* what holds of the posts: at most maxResults if the last batch came with a
\* cursor and was not empty, and fewer than maxResults + 100 in any case
C36_PostsBoundedWithCursor ==
    \A c \in Callers :
        reddit[c].pc = "returned" =>
            /\ Len(reddit[c].allPosts) < reddit[c].maxResults + 100
            /\ (/\ reddit[c].after
                /\ reddit[c].allPosts # <<>>
                /\ Last(reddit[c].allPosts)[1] = reddit[c].totalRequests)
                   => Len(reddit[c].allPosts) <= reddit[c].maxResults

idsOf(S) == {p.id : p \in S}

\* the elements of postsData that createMany has dealt with
dealtWith == SubSeq(saving.postsData, 1, saving.created + saving.skipped)

\* C37: when createMany returns, created + skipped is the number of posts it
\* was given and skipped is the number of saves rejected as duplicates of an
\* id; when it throws, the error is the one of the post it was at and is no
\* duplicate error, no later post has been dealt with, and the posts created
\* before are stored.
C37_CreateManyCounts ==
    /\ saving.pc = "returned" =>
           /\ saving.created + saving.skipped = Len(saving.postsData)
           /\ saving.skipped = saving.duplicates
           /\ saving.created = Cardinality(store) - Cardinality(saving.before)
           /\ store = saving.before \cup Range(saving.postsData)
    /\ saving.pc = "threw" =>
           /\ saving.index = saving.created + saving.skipped + 1
           /\ saving.index <= Len(saving.postsData)
           /\ saving.error \in {validationMessage, connectionMessage}
           /\ saving.error = validationMessage
                  <=> saving.postsData[saving.index].title = Undefined
           /\ saving.skipped = saving.duplicates
           /\ saving.created = Cardinality(store) - Cardinality(saving.before)
           /\ store = saving.before \cup Range(dealtWith)

\* createMany has returned after a post created, a post skipped as a
\* duplicate and another created
C37_Witness ==
    /\ saving.pc = "returned"
    /\ Len(saving.postsData) = 3
    /\ saving.created = 2
    /\ saving.skipped = 1
    /\ saving.postsData[2].id \in idsOf(saving.before)

====
